---- MODULE Spec2Model ----
(***************************************************************************)
(* A model of the blockgrave simulation engine (src/src/app.rs) and of the *)
(* event loop that drives it (src/src/main.rs).                            *)
(*                                                                         *)
(* Numbers.  Every f64 quantity of the program (balances, prices, work,    *)
(* difficulties, rates) is a fixed-point integer counting millionths:      *)
(* 1.0 is Unit.  Sums and differences are exact; a product is rounded      *)
(* down to a millionth (FMul, MulDiv).  Durations and instants count       *)
(* milliseconds; the completion timestamp of a ledger entry counts         *)
(* microseconds, so that its conversion to milliseconds loses something.   *)
(* Option<T> is a sequence of length 0 (None) or 1 (Some).  Vec indices    *)
(* keep the program's 0-based values; v[i] of the program is v[i + 1].     *)
(* The random generator is a nondeterministic choice among a few draws.    *)
(***************************************************************************)
EXTENDS Integers, Sequences, FiniteSets, TLC

VARIABLES
    focus,        \* App.focus
    should_quit,  \* App.should_quit
    paused,       \* App.paused
    pause_menu,   \* App.pause_menu: [selected, status]
    mining,       \* App.mining: [available_jobs, selected_job, active_job]
    hashpower,    \* App.hashpower: [owned, selected] (the tier table is static)
    bank,         \* App.bank: [chain_balance, credits_balance]
    ledger,       \* App.ledger: [entries, scroll]
    ticker,       \* App.ticker: [price, last_delta, history, time_since_update, update_interval]
    messages,     \* App.messages, newest first
    save_file,    \* the file SAVE_FILE on disk: [kind, doc]
    now,          \* the monotonic clock (Instant::now), in milliseconds
    aborted,      \* the process has panicked
    last,         \* the handler that ran last and what it returned: [op, ret]
    log,          \* the last two calls of sell_chain / buy_chain, oldest first
    commands,     \* how many commands (key events, direct calls) have been issued
    channel       \* the mpsc channel of run_app: [queue, sent, taken]

sim == <<focus, mining, hashpower, bank, ledger, ticker, messages>>
vars == <<focus, should_quit, paused, pause_menu, mining, hashpower, bank, ledger,
          ticker, messages, save_file, now, aborted, last, log, commands, channel>>

---------------------------------------------------------------------------
(* Fixed-point arithmetic *)

Unit == 1000 * 1000

Max(a, b) == IF a >= b THEN a ELSE b
Min(a, b) == IF a <= b THEN a ELSE b
Clamp(x, lo, hi) == Max(lo, Min(x, hi))

\* floor(a * n / d) for a >= 0, n >= 0, d > 0, without an intermediate a * n
MulDiv(a, n, d) == (a \div d) * n + ((a % d) * n) \div d

\* floor(a * b / Unit) for a, b >= 0, by three-digit limbs
FMulNat(a, b) ==
    LET a1 == a \div 1000
        a0 == a % 1000
        b1 == b \div 1000
        b0 == b % 1000
    IN  a1 * b1 + (a1 * b0 + a0 * b1 + (a0 * b0) \div 1000) \div 1000

\* a * b in fixed point, rounded toward zero
FMul(a, b) ==
    IF (a < 0) = (b < 0)
    THEN FMulNat(IF a < 0 THEN -a ELSE a, IF b < 0 THEN -b ELSE b)
    ELSE -FMulNat(IF a < 0 THEN -a ELSE a, IF b < 0 THEN -b ELSE b)

\* The work done on a contract is f64 arithmetic whose results are rounded to
\* the nearest representable value, ties to the even one.  Here a value is
\* representable when it is a whole number of millionths with at most
\* MantissaBits significant bits.
MantissaBits == 20

RECURSIVE Pow10(_)
Pow10(n) == IF n = 0 THEN 1 ELSE 10 * Pow10(n - 1)

RECURSIVE Pow2(_)
Pow2(n) == IF n = 0 THEN 1 ELSE 2 * Pow2(n - 1)

\* below MantissaLimit every whole number of millionths is representable
MantissaLimit == Pow2(MantissaBits)

\* the spacing of the representable values around x >= 0
RECURSIVE Ulp(_)
Ulp(x) == IF x < MantissaLimit THEN 1 ELSE 2 * Ulp(x \div 2)

\* x >= 0 rounded to the nearest multiple of q, ties to the even multiple
RoundTo(x, q) ==
    LET lo == (x \div q) * q
        r == x - lo
    IN  IF 2 * r < q THEN lo
        ELSE IF 2 * r > q THEN lo + q
        ELSE IF (lo \div q) % 2 = 0 THEN lo ELSE lo + q

\* x rounded to the nearest representable value
Fl(x) == IF x < 0 THEN -RoundTo(-x, Ulp(-x)) ELSE RoundTo(x, Ulp(x))

\* f64 addition and subtraction
FAdd(a, b) == Fl(a + b)
FSub(a, b) == Fl(a - b)

RECURSIVE FSumSeq(_, _)
\* Iterator::sum over f64: the running sum acc, rounded at every step
\* (each partial sum is computed before the next one is started)
FSumSeq(acc, s) ==
    IF s = <<>> THEN acc
    ELSE LET next == FAdd(acc, s[1])
         IN  IF next = next THEN FSumSeq(next, Tail(s)) ELSE acc

\* the decimal digits of r / d below the point, k of them, and what is left over
RECURSIVE DivDigits(_, _, _)
DivDigits(r, d, k) ==
    IF k = 0 THEN [q |-> 0, r |-> r]
    ELSE LET rest == DivDigits((r * 10) % d, d, k - 1)
         IN  [q |-> ((r * 10) \div d) * Pow10(k - 1) + rest.q, r |-> rest.r]

\* f64 division x / d for 0 <= x, 0 < d, rounded to the nearest millionth
FDiv(x, d) ==
    LET frac == DivDigits(x % d, d, 6)
    IN  (x \div d) * Unit + frac.q + (IF 2 * frac.r >= d THEN 1 ELSE 0)

None == <<>>
Some(x) == <<x>>
IsSome(o) == Len(o) = 1
Unwrap(o) == o[1]

RECURSIVE SumSeq(_)
SumSeq(s) == IF s = <<>> THEN 0 ELSE s[1] + SumSeq(Tail(s))

\* the sequence s without its i-th element (1-based)
RemoveAt(s, i) == [k \in 1..(Len(s) - 1) |-> IF k < i THEN s[k] ELSE s[k + 1]]

---------------------------------------------------------------------------
(* Program constants *)

MAX_MESSAGES == 5
JOB_POOL_SIZE == 4
PRICE_UPDATE_MIN_SECS == 5
PRICE_UPDATE_MAX_SECS == 15
EXCHANGE_BUY_MULTIPLIER_PCT == 101
EXCHANGE_SELL_MULTIPLIER_PCT == 99
\* the tolerance 1e-6 of sell_chain and buy_chain
TRADE_EPSILON == 1
\* the floor 0.25 of apply_random_walk and apply_market_nudge
PRICE_FLOOR == 250000
\* the capacity 256 of record_price
HISTORY_CAPACITY == 256
\* the bound 5.0 on a market nudge, and its scale 0.01 as a divisor
NUDGE_MAX == 5000000
NUDGE_SCALE_DIV == 100
INITIAL_PRICE == 32000000
INITIAL_CREDITS == 100000000
\* generate_job: the floors 0.4 and 0.8, and the 36 of the size factor
MIN_DIFFICULTY == 400000
MIN_PAYOUT == 800000
SIZE_FACTOR_DIV == 36
\* the coefficients 0.012 and 0.006 of apply_random_walk
DRIFT_COEFF == 12000
NOISE_COEFF == 6000

Secs(n) == n * 1000

PaneFocusValues == {"Mining", "Hashpower", "Bank", "Ledger"}

FocusNext(f) ==
    CASE f = "Mining" -> "Hashpower"
      [] f = "Hashpower" -> "Bank"
      [] f = "Bank" -> "Ledger"
      [] f = "Ledger" -> "Mining"

FocusPrev(f) ==
    CASE f = "Mining" -> "Ledger"
      [] f = "Hashpower" -> "Mining"
      [] f = "Bank" -> "Hashpower"
      [] f = "Ledger" -> "Bank"

\* PauseMenuState::OPTIONS, by 0-based position
PauseOptions == <<"Resume", "Save", "Load", "Quit">>

---------------------------------------------------------------------------
(* HashpowerTier, HashpowerState *)

\* HashpowerState::default: base_cost in whole credits, cost_multiplier in
\* hundredths, power in whole units
Tiers == <<
    [name |-> "Processor",     base_cost |-> 75,       cost_multiplier_pct |-> 118, power |-> 1],
    [name |-> "Server",        base_cost |-> 420,      cost_multiplier_pct |-> 120, power |-> 4],
    [name |-> "Rack",          base_cost |-> 2100,     cost_multiplier_pct |-> 122, power |-> 18],
    [name |-> "Lab",           base_cost |-> 9500,     cost_multiplier_pct |-> 124, power |-> 65],
    [name |-> "Supercomputer", base_cost |-> 38000,    cost_multiplier_pct |-> 126, power |-> 220],
    [name |-> "Datacenter",    base_cost |-> 150000,   cost_multiplier_pct |-> 128, power |-> 800],
    [name |-> "Quantum Array", base_cost |-> 620000,   cost_multiplier_pct |-> 131, power |-> 3000],
    [name |-> "Orbital Node",  base_cost |-> 2400000,  cost_multiplier_pct |-> 134, power |-> 10500],
    [name |-> "Darknet Farm",  base_cost |-> 8600000,  cost_multiplier_pct |-> 138, power |-> 34000],
    [name |-> "Foundry Core",  base_cost |-> 28000000, cost_multiplier_pct |-> 142, power |-> 120000] >>

TierCount == Len(Tiers)

\* Amounts of money at or above MoneyCeil are all represented by MoneyCeil: no
\* balance of the model comes near it, so a comparison against a cost that
\* saturated has the outcome it has in the program.
MoneyCeil == 1000 * Unit

RECURSIVE ScaleCost(_, _, _)
ScaleCost(c, pct, n) ==
    IF n = 0 \/ c >= MoneyCeil THEN Min(c, MoneyCeil)
    ELSE ScaleCost(MulDiv(c, pct, 100), pct, n - 1)

\* HashpowerTier::cost_for_next: base_cost * cost_multiplier^owned
cost_for_next(tier, owned) ==
    IF tier.base_cost >= MoneyCeil \div Unit THEN MoneyCeil
    ELSE ScaleCost(tier.base_cost * Unit, tier.cost_multiplier_pct, owned)

\* HashpowerState::total_power, in whole units of power
RECURSIVE PowerFrom(_, _)
PowerFrom(owned, i) ==
    IF i > Len(owned) THEN 0 ELSE Tiers[i].power * owned[i] + PowerFrom(owned, i + 1)

\* rigs that deliver nothing
total_power_unplugged(h) == 0

total_power(h) == PowerFrom(h.owned, 1)

hashpower_select_next(h) == [h EXCEPT !.selected = (h.selected + 1) % TierCount]

hashpower_select_previous(h) ==
    [h EXCEPT !.selected = IF h.selected = 0 THEN TierCount - 1 ELSE h.selected - 1]

\* a purchase that adds the unit without taking its cost from the credits
purchase_selected_unpaid(h, b) ==
    LET cost == cost_for_next(Tiers[h.selected + 1], h.owned[h.selected + 1])
    IN  IF b.credits_balance >= cost
        THEN [ret |-> Some(cost),
              hashpower |-> [h EXCEPT !.owned[h.selected + 1] = @ + 1],
              bank |-> b]
        ELSE [ret |-> None, hashpower |-> h, bank |-> b]

\* a purchase that goes through whatever the credits
purchase_selected_on_credit(h, b) ==
    LET cost == cost_for_next(Tiers[h.selected + 1], h.owned[h.selected + 1])
    IN  [ret |-> Some(cost),
         hashpower |-> [h EXCEPT !.owned[h.selected + 1] = @ + 1],
         bank |-> [b EXCEPT !.credits_balance = @ - cost]]

\* HashpowerState::purchase_selected: the returned Option, and both states after
purchase_selected(h, b) ==
    LET cost == cost_for_next(Tiers[h.selected + 1], h.owned[h.selected + 1])
    IN  IF b.credits_balance >= cost
        THEN [ret |-> Some(cost),
              hashpower |-> [h EXCEPT !.owned[h.selected + 1] = @ + 1],
              bank |-> [b EXCEPT !.credits_balance = @ - cost]]
        ELSE [ret |-> None, hashpower |-> h, bank |-> b]

\* HashpowerState::apply_owned
apply_owned(h, owned, selected) ==
    [owned |-> [i \in 1..TierCount |-> IF i <= Len(owned) THEN owned[i] ELSE 0],
     selected |-> Min(selected, TierCount - 1)]

---------------------------------------------------------------------------
(* BankState *)

\* a sale at the price a purchase pays
sell_chain_at_buy_price(b, amount, market_price) ==
    IF b.chain_balance + TRADE_EPSILON < amount
    THEN [ret |-> None, bank |-> b]
    ELSE LET unit_price == MulDiv(market_price, EXCHANGE_BUY_MULTIPLIER_PCT, 100)
             proceeds == FMul(amount, unit_price)
         IN  [ret |-> Some(proceeds),
              bank |-> [chain_balance |-> b.chain_balance - amount,
                        credits_balance |-> b.credits_balance + proceeds]]

\* a sale that allows no tolerance
sell_chain_strict(b, amount, market_price) ==
    IF b.chain_balance < amount
    THEN [ret |-> None, bank |-> b]
    ELSE LET unit_price == MulDiv(market_price, EXCHANGE_SELL_MULTIPLIER_PCT, 100)
             proceeds == FMul(amount, unit_price)
         IN  [ret |-> Some(proceeds),
              bank |-> [chain_balance |-> b.chain_balance - amount,
                        credits_balance |-> b.credits_balance + proceeds]]

\* BankState::sell_chain: the returned Option and the bank after
sell_chain(b, amount, market_price) ==
    IF b.chain_balance + TRADE_EPSILON < amount
    THEN [ret |-> None, bank |-> b]
    ELSE LET unit_price == MulDiv(market_price, EXCHANGE_SELL_MULTIPLIER_PCT, 100)
             proceeds == FMul(amount, unit_price)
         IN  [ret |-> Some(proceeds),
              bank |-> [chain_balance |-> b.chain_balance - amount,
                        credits_balance |-> b.credits_balance + proceeds]]

\* a purchase that checks the credits against the cost without the fee
buy_chain_unchecked_fee(b, amount, market_price) ==
    LET unit_price == MulDiv(market_price, EXCHANGE_BUY_MULTIPLIER_PCT, 100)
        cost == FMul(amount, unit_price)
    IN  IF b.credits_balance + TRADE_EPSILON < FMul(amount, market_price)
        THEN [ret |-> None, bank |-> b]
        ELSE [ret |-> Some(cost),
              bank |-> [chain_balance |-> b.chain_balance + amount,
                        credits_balance |-> b.credits_balance - cost]]

\* BankState::buy_chain: the returned Option and the bank after
buy_chain(b, amount, market_price) ==
    LET unit_price == MulDiv(market_price, EXCHANGE_BUY_MULTIPLIER_PCT, 100)
        cost == FMul(amount, unit_price)
    IN  IF b.credits_balance + TRADE_EPSILON < cost
        THEN [ret |-> None, bank |-> b]
        ELSE [ret |-> Some(cost),
              bank |-> [chain_balance |-> b.chain_balance + amount,
                        credits_balance |-> b.credits_balance - cost]]

---------------------------------------------------------------------------
(* MiningJob and generate_job *)

\* What the random generator hands generate_job: the name and lore picks, the
\* grid, the log-normal samples (cell i takes samples[((i - 1) % Len) + 1]), the
\* payout rate and the market impact.
SampleAt(draw, i) == draw.samples[((i - 1) % Len(draw.samples)) + 1]

\* a generator that takes every sample as it comes, however small
generate_job_unfloored(draw) ==
    LET count == draw.rows * draw.cols
        linklet_difficulties ==
            [i \in 1..count |->
                Fl(MulDiv(SampleAt(draw, i), SIZE_FACTOR_DIV + count, SIZE_FACTOR_DIV))]
        total_difficulty == FSumSeq(0, linklet_difficulties)
    IN  [name |-> draw.name,
         rows |-> draw.rows,
         cols |-> draw.cols,
         difficulty |-> total_difficulty,
         payout_chain |-> Max(FMul(total_difficulty, draw.rate), MIN_PAYOUT),
         linklet_difficulties |-> linklet_difficulties,
         market_impact |-> draw.impact,
         lore |-> draw.lore]

generate_job(draw) ==
    LET count == draw.rows * draw.cols
        linklet_difficulties ==
            [i \in 1..count |->
                Max(Fl(MulDiv(SampleAt(draw, i), SIZE_FACTOR_DIV + count, SIZE_FACTOR_DIV)),
                    MIN_DIFFICULTY)]
        total_difficulty == FSumSeq(0, linklet_difficulties)
    IN  [name |-> draw.name,
         rows |-> draw.rows,
         cols |-> draw.cols,
         difficulty |-> total_difficulty,
         payout_chain |-> Max(FMul(total_difficulty, draw.rate), MIN_PAYOUT),
         linklet_difficulties |-> linklet_difficulties,
         market_impact |-> draw.impact,
         lore |-> draw.lore]

\* generate_link_id: the two buckets and the random body (the checksum is a
\* function of them)
RECURSIVE FloorLog2(_)
FloorLog2(n) == IF n <= 1 THEN 0 ELSE 1 + FloorLog2(n \div 2)

generate_link_id(job, body) ==
    [difficulty_bucket |-> MulDiv(Clamp(job.difficulty, 0, 220 * Unit), 15, 220 * Unit),
     size_bucket |-> Min(FloorLog2(Len(job.linklet_difficulties)), 15),
     body |-> body]

---------------------------------------------------------------------------
(* ActiveJob *)

\* LinkletProgress::new
LinkletProgress(difficulty) == [difficulty |-> difficulty, remaining |-> difficulty]

\* an active contract created with nothing left to do in any cell
ActiveJob_new_spent(job, started_at) ==
    [job |-> job,
     linklets |-> [i \in 1..Len(job.linklet_difficulties) |->
                      [difficulty |-> job.linklet_difficulties[i], remaining |-> 0]],
     current_index |-> 0,
     started_at |-> started_at]

\* ActiveJob::new
ActiveJob_new(job, started_at) ==
    [job |-> job,
     linklets |-> [i \in 1..Len(job.linklet_difficulties) |->
                      LinkletProgress(job.linklet_difficulties[i])],
     current_index |-> 0,
     started_at |-> started_at]

\* work taken from the cell at the cursor whatever is left in it
ActiveJob_apply_work_overdrawn(a, work) ==
    IF work > 0 /\ a.current_index < Len(a.linklets)
    THEN [a EXCEPT !.linklets[a.current_index + 1].remaining = FSub(@, work)]
    ELSE a

\* ActiveJob::apply_work
RECURSIVE ActiveJob_apply_work(_, _)
ActiveJob_apply_work(a, work) ==
    IF work > 0 /\ a.current_index < Len(a.linklets)
    THEN LET i == a.current_index + 1
             remaining == a.linklets[i].remaining
         IN  IF remaining > work
             THEN [a EXCEPT !.linklets[i].remaining = FSub(remaining, work)]
             ELSE ActiveJob_apply_work(
                      [a EXCEPT !.linklets[i].remaining = 0,
                                !.current_index = a.current_index + 1],
                      FSub(work, remaining))
    ELSE a

\* ActiveJob::is_complete
is_complete(a) == a.current_index >= Len(a.linklets)

\* ActiveJob::completion_ratio, in millionths
completion_ratio(a) ==
    IF a.linklets = <<>> THEN 0
    ELSE LET total == FSumSeq(0, [i \in 1..Len(a.linklets) |-> a.linklets[i].difficulty])
             remaining == FSumSeq(0, [i \in 1..(Len(a.linklets) - a.current_index) |->
                                         a.linklets[a.current_index + i].remaining])
             done == FSub(total, remaining)
         IN  IF done <= 0 THEN 0 ELSE Clamp(FDiv(done, total), 0, Unit)

---------------------------------------------------------------------------
(* MiningState *)

\* an acceptance that does not look at the active slot
take_selected_job_regardless(m) ==
    IF m.available_jobs = <<>>
    THEN [ret |-> None, mining |-> m]
    ELSE LET sel == IF m.selected_job >= Len(m.available_jobs) THEN 0 ELSE m.selected_job
             rest == RemoveAt(m.available_jobs, sel + 1)
         IN  [ret |-> Some(m.available_jobs[sel + 1]),
              mining |-> [m EXCEPT
                  !.available_jobs = rest,
                  !.selected_job = IF rest = <<>> THEN 0
                                   ELSE IF sel >= Len(rest) THEN Len(rest) - 1
                                   ELSE sel]]

\* an acceptance that hands out the selected contract and leaves it in the pool
take_selected_job_copy(m) ==
    IF IsSome(m.active_job) \/ m.available_jobs = <<>>
    THEN [ret |-> None, mining |-> m]
    ELSE LET sel == IF m.selected_job >= Len(m.available_jobs) THEN 0 ELSE m.selected_job
         IN  [ret |-> Some(m.available_jobs[sel + 1]),
              mining |-> [m EXCEPT !.selected_job = sel]]

\* MiningState::take_selected_job: the returned Option and the state after
take_selected_job(m) ==
    IF IsSome(m.active_job) \/ m.available_jobs = <<>>
    THEN [ret |-> None, mining |-> m]
    ELSE LET sel == IF m.selected_job >= Len(m.available_jobs) THEN 0 ELSE m.selected_job
             rest == RemoveAt(m.available_jobs, sel + 1)
         IN  [ret |-> Some(m.available_jobs[sel + 1]),
              mining |-> [m EXCEPT
                  !.available_jobs = rest,
                  !.selected_job = IF rest = <<>> THEN 0
                                   ELSE IF sel >= Len(rest) THEN Len(rest) - 1
                                   ELSE sel]]

\* a step to the next contract that never returns to the first
mining_select_next_unwrapped(m) ==
    IF m.available_jobs = <<>> THEN m
    ELSE [m EXCEPT !.selected_job = m.selected_job + 1]

mining_select_next(m) ==
    IF m.available_jobs = <<>> THEN m
    ELSE [m EXCEPT !.selected_job = (m.selected_job + 1) % Len(m.available_jobs)]

mining_select_previous(m) ==
    IF m.available_jobs = <<>> THEN m
    ELSE [m EXCEPT !.selected_job =
             IF m.selected_job = 0 THEN Len(m.available_jobs) - 1 ELSE m.selected_job - 1]

\* MiningState::apply_work: the active job after the work, taken out when complete
mining_apply_work(m, work) ==
    IF IsSome(m.active_job)
    THEN LET active == ActiveJob_apply_work(Unwrap(m.active_job), work)
         IN  IF is_complete(active)
             THEN [completed |-> Some(active), mining |-> [m EXCEPT !.active_job = None]]
             ELSE [completed |-> None, mining |-> [m EXCEPT !.active_job = Some(active)]]
    ELSE [completed |-> None, mining |-> m]

\* MiningState::replenish_pool, with the jobs the generator yields, in order
RECURSIVE replenish_pool(_, _)
replenish_pool(jobs, fresh) ==
    IF Len(jobs) < JOB_POOL_SIZE /\ fresh # <<>>
    THEN replenish_pool(Append(jobs, fresh[1]), Tail(fresh))
    ELSE jobs

\* The orders SliceRandom::shuffle can leave a pool in: every permutation
Shuffles(s) ==
    LET n == Len(s)
        perms == {f \in [1..n -> 1..n] : \A i, j \in 1..n : f[i] = f[j] => i = j}
    IN  {[i \in 1..n |-> s[f[i]]] : f \in perms}

---------------------------------------------------------------------------
(* LedgerState *)

\* LedgerState::add_entry
\* an append at the far end of the list
add_entry_last(l, entry) == [l EXCEPT !.entries = l.entries \o <<entry>>]

add_entry(l, entry) == [l EXCEPT !.entries = <<entry>> \o l.entries]

scroll_up(l) == IF l.scroll > 0 THEN [l EXCEPT !.scroll = l.scroll - 1] ELSE l

\* a scroll down that does not stop at the last entry
scroll_down_past_end(l) == [l EXCEPT !.scroll = l.scroll + 1]

scroll_down(l) ==
    IF l.scroll + 1 < Len(l.entries) THEN [l EXCEPT !.scroll = l.scroll + 1] ELSE l

---------------------------------------------------------------------------
(* TickerState *)

\* a history that makes room by giving up its newest sample
record_price_newest_out(t) ==
    [t EXCEPT !.history = SubSeq(Append(t.history, t.price), 1,
                                 Min(Len(t.history) + 1, HISTORY_CAPACITY))]

\* TickerState::record_price
RECURSIVE DropOldest(_)
DropOldest(h) == IF Len(h) > HISTORY_CAPACITY THEN DropOldest(Tail(h)) ELSE h

record_price(t) == [t EXCEPT !.history = DropOldest(Append(t.history, t.price))]

\* a walk that takes the delta after the price has moved
apply_random_walk_delta_late(t, draw) ==
    LET delta == FMul(draw.drift, DRIFT_COEFF) + FMul(draw.noise, NOISE_COEFF)
        new_price == Max(FMul(t.price, Unit + delta), PRICE_FLOOR)
        moved == [t EXCEPT !.price = new_price]
    IN  record_price([moved EXCEPT !.last_delta = new_price - moved.price])

\* TickerState::apply_random_walk with the generator's drift and noise
apply_random_walk(t, draw) ==
    LET delta == FMul(draw.drift, DRIFT_COEFF) + FMul(draw.noise, NOISE_COEFF)
        new_price == Max(FMul(t.price, Unit + delta), PRICE_FLOOR)
    IN  record_price([t EXCEPT !.last_delta = new_price - t.price, !.price = new_price])

\* a nudge that does not hold the price at the floor
apply_market_nudge_unfloored(t, impact, payout_chain) ==
    LET impulse == Clamp(FMul(impact, payout_chain) \div NUDGE_SCALE_DIV, -NUDGE_MAX, NUDGE_MAX)
        new_price == t.price + impulse
        delta == new_price - t.price
    IN  [delta |-> delta,
         ticker |-> record_price([t EXCEPT !.price = new_price, !.last_delta = delta])]

\* a nudge that reports the impulse it meant to apply
apply_market_nudge_impulse(t, impact, payout_chain) ==
    LET impulse == Clamp(FMul(impact, payout_chain) \div NUDGE_SCALE_DIV, -NUDGE_MAX, NUDGE_MAX)
        new_price == Max(t.price + impulse, PRICE_FLOOR)
        delta == new_price - t.price
    IN  [delta |-> impulse,
         ticker |-> record_price([t EXCEPT !.price = new_price, !.last_delta = delta])]

\* TickerState::apply_market_nudge: the returned delta and the ticker after
apply_market_nudge(t, impact, payout_chain) ==
    LET impulse == Clamp(FMul(impact, payout_chain) \div NUDGE_SCALE_DIV, -NUDGE_MAX, NUDGE_MAX)
        new_price == Max(t.price + impulse, PRICE_FLOOR)
        delta == new_price - t.price
    IN  [delta |-> delta,
         ticker |-> record_price([t EXCEPT !.price = new_price, !.last_delta = delta])]

\* TickerState::new
TickerState_new(initial_price, interval) ==
    [price |-> initial_price,
     last_delta |-> 0,
     history |-> <<initial_price>>,
     time_since_update |-> 0,
     update_interval |-> interval]

\* TickerState::seconds_until_update, in milliseconds
seconds_until_update(t) ==
    IF t.time_since_update >= t.update_interval THEN 0
    ELSE t.update_interval - t.time_since_update

---------------------------------------------------------------------------
(* What the random generator, the clocks and the file system can yield *)

\* bounds of the model
MaxClock == 15000
MaxLedger == 2
MaxCommands == 4

\* Generator draws for generate_job.  DrawSmall: every cell at the difficulty
\* floor, the payout at its floor (0.8).  DrawOdd: a total difficulty of
\* 14.285712 (its cells add up to 14.285706) at rate 0.07, a payout of 0.999999.
\* DrawSkew: twelve cells that add up to 9.999996 and a total difficulty of 10.
DrawSmall ==
    [name |-> "Dim Node", lore |-> "lore-1", rows |-> 3, cols |-> 4,
     samples |-> <<100000>>, rate |-> 50000, impact |-> -800000]

DrawOdd ==
    [name |-> "Ghost Vault", lore |-> "lore-2", rows |-> 3, cols |-> 4,
     samples |-> <<900000, 900000, 900000, 900000, 900000, 900000,
                   900000, 900000, 900000, 900000, 900000, 814280>>,
     rate |-> 70000, impact |-> 1000000]

DrawSkew ==
    [name |-> "Hollow Relay", lore |-> "lore-4", rows |-> 3, cols |-> 4,
     samples |-> <<641824, 608176>>, rate |-> 50000, impact |-> 400000]

JobDraws == {DrawSmall, DrawOdd}

\* a draw no contract of a first pool comes from
DrawFresh == [DrawOdd EXCEPT !.name = "Pale Beacon", !.lore = "lore-3"]

\* the four draws of App::new
InitialPools == {<<DrawOdd, DrawSmall, DrawSmall, DrawOdd>>,
                 <<DrawSmall, DrawOdd, DrawOdd, DrawSmall>>}

\* roll_interval: gen_range(5.0..=15.0), in milliseconds
IntervalDraws == {Secs(PRICE_UPDATE_MIN_SECS), Secs(PRICE_UPDATE_MAX_SECS)}

\* apply_random_walk: drift in [-0.25, 0.35), noise in [-0.15, 0.15)
WalkDraws == {[drift |-> -250000, noise |-> -150000],
              [drift |-> 300000, noise |-> 100000]}

\* nanoid bodies of generate_link_id
IdBodies == {"K3Q9ZD"}

\* Utc::now() at a completion: the microseconds past the clock's millisecond
SubMillis == {0, 250}

\* the durations on_tick is called with, in milliseconds
TickDurations == {5000, 10000}

\* A generator: the draws it can yield for each use.  RngFull yields every draw
\* above; RngCalm moves the price one way and names one completion instant.
RngFull ==
    [walks |-> WalkDraws, intervals |-> IntervalDraws, jobs |-> JobDraws,
     bodies |-> IdBodies, fracs |-> SubMillis]

RngCalm ==
    [walks |-> {[drift |-> 300000, noise |-> 100000]},
     intervals |-> {Secs(PRICE_UPDATE_MAX_SECS)},
     jobs |-> JobDraws, bodies |-> IdBodies, fracs |-> {250}]

\* RngCalm with one contract it can generate
RngFresh == [RngCalm EXCEPT !.jobs = {DrawFresh}]

\* one sequence of draws: every use of the generator has a single outcome
RngFixed == [RngCalm EXCEPT !.jobs = {DrawSmall}]

\* Duration::from_secs_f64 panics above Duration::MAX; DateTime::from_timestamp_millis
\* is None outside chrono's range; Instant::checked_sub is None before the
\* clock's origin, which lies ClockOrigin milliseconds before the program's start.
\* The limits are scaled to the model's integers.
DurationMax == 2000 * Unit
ChronoMaxMs == 1000 * 1000
ClockOrigin == 60 * 1000

---------------------------------------------------------------------------
(* TickerState::tick *)

\* a tick that takes at most one step however much time has accumulated
tick_loop_once(t, rng) ==
    IF t.time_since_update >= t.update_interval
    THEN {[apply_random_walk([t EXCEPT !.time_since_update = @ - t.update_interval], w)
             EXCEPT !.update_interval = iv] : w \in rng.walks, iv \in rng.intervals}
    ELSE {t}

\* the loop of TickerState::tick: every ticker the generator's draws can leave
RECURSIVE tick_loop(_, _)
tick_loop(t, rng) ==
    IF t.time_since_update >= t.update_interval
    THEN UNION {tick_loop([apply_random_walk(
                              [t EXCEPT !.time_since_update = @ - t.update_interval], w)
                           EXCEPT !.update_interval = iv], rng) :
                w \in rng.walks, iv \in rng.intervals}
    ELSE {t}

ticker_tick(t, dt, rng) == tick_loop([t EXCEPT !.time_since_update = @ + dt], rng)

---------------------------------------------------------------------------
(* Persistence: SaveData and its parts.  An app is the record of the fields *)
(* of App that a snapshot covers.                                           *)

\* Duration::from_secs_f64(secs.max(0.0)) panics when the value exceeds Duration::MAX
DurationPanics(secs) == Max(secs, 0) > DurationMax

\* ActiveJobSave::from_active, at clock reading t
ActiveJobSave_from_active(active, t) ==
    [job |-> active.job,
     linklets |-> active.linklets,
     current_index |-> active.current_index,
     elapsed_secs |-> t - active.started_at]

\* ActiveJob::from_save, at clock reading t
ActiveJob_from_save(save, t) ==
    LET elapsed == Max(save.elapsed_secs, 0)
    IN  [job |-> save.job,
         linklets |-> save.linklets,
         current_index |-> Min(save.current_index, Len(save.linklets)),
         started_at |-> IF elapsed <= t + ClockOrigin THEN t - elapsed ELSE t]

\* MiningState::to_save
mining_to_save(m, t) ==
    [available_jobs |-> m.available_jobs,
     selected_job |-> m.selected_job,
     active_job |-> IF IsSome(m.active_job)
                    THEN Some(ActiveJobSave_from_active(Unwrap(m.active_job), t))
                    ELSE None]

\* MiningState::apply_save
\* a restore that takes the saved selection as it is
mining_apply_save_unclamped(save, t) ==
    [available_jobs |-> save.available_jobs,
     selected_job |-> save.selected_job,
     active_job |-> IF IsSome(save.active_job)
                    THEN Some(ActiveJob_from_save(Unwrap(save.active_job), t))
                    ELSE None]

mining_apply_save(save, t) ==
    [available_jobs |-> save.available_jobs,
     selected_job |-> IF save.available_jobs = <<>> THEN 0
                      ELSE Min(save.selected_job, Len(save.available_jobs) - 1),
     active_job |-> IF IsSome(save.active_job)
                    THEN Some(ActiveJob_from_save(Unwrap(save.active_job), t))
                    ELSE None]

\* LedgerEntrySave::from_entry: timestamp_millis drops the microseconds
LedgerEntrySave_from_entry(entry) ==
    [id |-> entry.id,
     name |-> entry.name,
     finished_at_ms |-> entry.finished_at \div 1000,
     difficulty |-> entry.difficulty,
     payout_chain |-> entry.payout_chain,
     credits_at_completion |-> entry.credits_at_completion,
     duration_secs |-> entry.duration,
     market_impact |-> entry.market_impact]

\* DateTime::from_timestamp_millis is Some
TimestampValid(ms) == -ChronoMaxMs <= ms /\ ms <= ChronoMaxMs

\* LedgerEntrySave::into_entry, for a save it neither rejects nor panics on
LedgerEntrySave_into_entry(save) ==
    [id |-> save.id,
     name |-> save.name,
     finished_at |-> save.finished_at_ms * 1000,
     difficulty |-> save.difficulty,
     payout_chain |-> save.payout_chain,
     credits_at_completion |-> save.credits_at_completion,
     duration |-> Max(save.duration_secs, 0),
     market_impact |-> save.market_impact]

\* how collecting into_entry over the saved ledger ends: at the first entry, in
\* order, with an invalid timestamp ("err") or an unrepresentable duration ("panic")
RECURSIVE ConvertLedger(_)
ConvertLedger(saves) ==
    IF saves = <<>> THEN "ok"
    ELSE IF ~TimestampValid(saves[1].finished_at_ms) THEN "err"
    ELSE IF DurationPanics(saves[1].duration_secs) THEN "panic"
    ELSE ConvertLedger(Tail(saves))

\* TickerState::to_save
ticker_to_save(t) ==
    [price |-> t.price,
     last_delta |-> t.last_delta,
     history |-> t.history,
     time_since_update_secs |-> t.time_since_update,
     update_interval_secs |-> t.update_interval]

\* TickerState::from_save
ticker_from_save(save) ==
    LET interval == Clamp(save.update_interval_secs,
                          Secs(PRICE_UPDATE_MIN_SECS), Secs(PRICE_UPDATE_MAX_SECS))
    IN  [price |-> save.price,
         last_delta |-> save.last_delta,
         history |-> IF save.history = <<>> THEN <<save.price>> ELSE save.history,
         time_since_update |-> Min(Max(save.time_since_update_secs, 0), interval),
         update_interval |-> interval]

\* SaveData::from_app, at clock reading t
SaveData_from_app(app, t) ==
    [focus |-> app.focus,
     mining |-> mining_to_save(app.mining, t),
     hashpower_owned |-> app.hashpower.owned,
     hashpower_selected |-> app.hashpower.selected,
     bank |-> app.bank,
     ledger |-> [i \in 1..Len(app.ledger.entries) |->
                    LedgerEntrySave_from_entry(app.ledger.entries[i])],
     ledger_scroll |-> app.ledger.scroll,
     ticker |-> ticker_to_save(app.ticker),
     messages |-> app.messages]

\* SaveData::apply, at clock reading t: how it ends ("ok", "err", "panic") and the
\* app it leaves, statement by statement
SaveData_apply(doc, app, t) ==
    LET a1 == [app EXCEPT !.focus = doc.focus]
        a2 == [a1 EXCEPT !.mining = mining_apply_save(doc.mining, t)]
        a3 == [a2 EXCEPT !.hashpower =
                  apply_owned(a2.hashpower, doc.hashpower_owned, doc.hashpower_selected)]
        a4 == [a3 EXCEPT !.bank = doc.bank]
        converted == ConvertLedger(doc.ledger)
        entries == [i \in 1..Len(doc.ledger) |-> LedgerEntrySave_into_entry(doc.ledger[i])]
        a5 == [a4 EXCEPT !.ledger =
                  [entries |-> entries,
                   scroll |-> IF entries = <<>> THEN 0
                              ELSE Min(doc.ledger_scroll, Len(entries) - 1)]]
        a6 == [a5 EXCEPT !.ticker = ticker_from_save(doc.ticker)]
        a7 == [a6 EXCEPT !.messages =
                  IF Len(doc.messages) > MAX_MESSAGES
                  THEN SubSeq(doc.messages, 1, MAX_MESSAGES) ELSE doc.messages]
    IN  IF IsSome(doc.mining.active_job)
           /\ DurationPanics(Unwrap(doc.mining.active_job).elapsed_secs)
        THEN [result |-> "panic",
              app |-> [a1 EXCEPT !.mining.available_jobs = a2.mining.available_jobs,
                                 !.mining.selected_job = a2.mining.selected_job]]
        ELSE IF converted # "ok" THEN [result |-> converted, app |-> a4]
        ELSE IF DurationPanics(doc.ticker.time_since_update_secs)
             THEN [result |-> "panic", app |-> a5]
        ELSE [result |-> "ok", app |-> a7]

\* the fields of App a snapshot covers, as they are now
TheApp ==
    [focus |-> focus, mining |-> mining, hashpower |-> hashpower, bank |-> bank,
     ledger |-> ledger, ticker |-> ticker, messages |-> messages]

---------------------------------------------------------------------------
(* App *)

\* App::push_message
push_message(msgs, msg) ==
    LET all == <<msg>> \o msgs
    IN  IF Len(all) > MAX_MESSAGES THEN SubSeq(all, 1, MAX_MESSAGES) ELSE all

NoRet(op) == [op |-> op, ret |-> None]

\* a call of sell_chain or buy_chain, kept in log
LogCall(op, amount, price, before, r) ==
    LET call == [op |-> op, amount |-> amount, price |-> price, ret |-> r.ret,
                 before |-> before, after |-> r.bank]
    IN  IF Len(log) < 2 THEN Append(log, call) ELSE <<log[2], call>>

\* the parts of App::new
MiningState_new(pool) ==
    [available_jobs |-> [i \in 1..JOB_POOL_SIZE |-> generate_job(pool[i])],
     selected_job |-> 0,
     active_job |-> None]

HashpowerState_new == [owned |-> [i \in 1..TierCount |-> IF i = 1 THEN 1 ELSE 0],
                       selected |-> 0]

BankState_default == [chain_balance |-> 0, credits_balance |-> INITIAL_CREDITS]

\* mpsc::channel(): nothing in flight, nothing sent or taken; sent and taken
\* hold, per sender, the number of the last event sent and of the last taken
ChannelEmpty ==
    [queue |-> <<>>,
     sent |-> [input |-> 0, tick |-> 0],
     taken |-> [input |-> 0, tick |-> 0]]

\* an App with the given focus, mining, hashpower, bank and ticker, and the rest as
\* App::new leaves it
AppWith(f, m, h, b, t) ==
    /\ focus = f
    /\ should_quit = FALSE
    /\ paused = FALSE
    /\ pause_menu = [selected |-> 0, status |-> None]
    /\ mining = m
    /\ hashpower = h
    /\ bank = b
    /\ ledger = [entries |-> <<>>, scroll |-> 0]
    /\ ticker = t
    /\ messages = <<>>
    /\ save_file = [kind |-> "missing", doc |-> None]
    /\ now = 0
    /\ aborted = FALSE
    /\ last = NoRet("new")
    /\ log = <<>>
    /\ commands = 0
    /\ channel = ChannelEmpty

\* App::new
Init ==
    \E pool \in InitialPools, iv \in IntervalDraws :
        AppWith("Mining", MiningState_new(pool), HashpowerState_new, BankState_default,
                TickerState_new(INITIAL_PRICE, iv))

\* the event loop of run_app takes events until should_quit or a panic
Running == ~aborted /\ ~should_quit

\* a tick that values a completed contract at the price its own nudge left
tick_outcomes_nudge_priced(app, t, dt, rng) ==
    LET work == total_power(app.hashpower) * dt * (Unit \div 1000)
        applied == mining_apply_work(app.mining, work)
    IN  IF IsSome(applied.completed)
        THEN LET completed == Unwrap(applied.completed)
                 job == completed.job
                 need == 1 + Max(0, JOB_POOL_SIZE - (Len(applied.mining.available_jobs) + 1))
                 Outcome(t1, body, frac, fresh) ==
                     LET nudge == apply_market_nudge(t1, job.market_impact, job.payout_chain)
                         credits_value == FMul(job.payout_chain, nudge.ticker.price)
                         entry == [id |-> generate_link_id(job, body),
                                   name |-> job.name,
                                   finished_at |-> (t + dt) * 1000 + frac,
                                   difficulty |-> job.difficulty,
                                   payout_chain |-> job.payout_chain,
                                   credits_at_completion |-> credits_value,
                                   duration |-> (t + dt) - completed.started_at,
                                   market_impact |-> nudge.delta]
                         pushed == Append(applied.mining.available_jobs,
                                          generate_job(fresh[1]))
                     IN  [ret |-> Some(job.payout_chain),
                          app |-> [app EXCEPT
                              !.messages = push_message(app.messages, "restored"),
                              !.bank.chain_balance = @ + job.payout_chain,
                              !.ticker = nudge.ticker,
                              !.ledger = add_entry(app.ledger, entry),
                              !.mining = [applied.mining EXCEPT !.available_jobs =
                                  replenish_pool(pushed,
                                      [i \in 1..(need - 1) |-> generate_job(fresh[i + 1])])]]]
             IN  {Outcome(t1, body, frac, fresh) :
                    t1 \in ticker_tick(app.ticker, dt, rng), body \in rng.bodies,
                    frac \in rng.fracs, fresh \in [1..need -> rng.jobs]}
        ELSE LET need == Max(0, JOB_POOL_SIZE - Len(applied.mining.available_jobs))
             IN  {[ret |-> None,
                   app |-> [app EXCEPT
                       !.ticker = t1,
                       !.mining = [applied.mining EXCEPT !.available_jobs =
                           replenish_pool(applied.mining.available_jobs,
                               [i \in 1..need |-> generate_job(fresh[i])])]]] :
                    t1 \in ticker_tick(app.ticker, dt, rng), fresh \in [1..need -> rng.jobs]}

\* a tick that credits a completed contract's payout twice
tick_outcomes_paid_twice(app, t, dt, rng) ==
    LET work == total_power(app.hashpower) * dt * (Unit \div 1000)
        applied == mining_apply_work(app.mining, work)
    IN  IF IsSome(applied.completed)
        THEN LET completed == Unwrap(applied.completed)
                 job == completed.job
                 need == 1 + Max(0, JOB_POOL_SIZE - (Len(applied.mining.available_jobs) + 1))
                 Outcome(t1, body, frac, fresh) ==
                     LET credits_value == FMul(job.payout_chain, t1.price)
                         nudge == apply_market_nudge(t1, job.market_impact, job.payout_chain)
                         entry == [id |-> generate_link_id(job, body),
                                   name |-> job.name,
                                   finished_at |-> (t + dt) * 1000 + frac,
                                   difficulty |-> job.difficulty,
                                   payout_chain |-> job.payout_chain,
                                   credits_at_completion |-> credits_value,
                                   duration |-> (t + dt) - completed.started_at,
                                   market_impact |-> nudge.delta]
                         pushed == Append(applied.mining.available_jobs,
                                          generate_job(fresh[1]))
                     IN  [ret |-> Some(job.payout_chain),
                          app |-> [app EXCEPT
                              !.messages = push_message(app.messages, "restored"),
                              !.bank.chain_balance = @ + 2 * job.payout_chain,
                              !.ticker = nudge.ticker,
                              !.ledger = add_entry(app.ledger, entry),
                              !.mining = [applied.mining EXCEPT !.available_jobs =
                                  replenish_pool(pushed,
                                      [i \in 1..(need - 1) |-> generate_job(fresh[i + 1])])]]]
             IN  {Outcome(t1, body, frac, fresh) :
                    t1 \in ticker_tick(app.ticker, dt, rng), body \in rng.bodies,
                    frac \in rng.fracs, fresh \in [1..need -> rng.jobs]}
        ELSE LET need == Max(0, JOB_POOL_SIZE - Len(applied.mining.available_jobs))
             IN  {[ret |-> None,
                   app |-> [app EXCEPT
                       !.ticker = t1,
                       !.mining = [applied.mining EXCEPT !.available_jobs =
                           replenish_pool(applied.mining.available_jobs,
                               [i \in 1..need |-> generate_job(fresh[i])])]]] :
                    t1 \in ticker_tick(app.ticker, dt, rng), fresh \in [1..need -> rng.jobs]}

\* App::on_tick(dt) when not paused, on the app as it is at time t: every
\* outcome the generator's draws allow, as the app after the tick and the payout
\* of the contract completed in it, if any
tick_outcomes(app, t, dt, rng) ==
    LET work == total_power(app.hashpower) * dt * (Unit \div 1000)
        applied == mining_apply_work(app.mining, work)
    IN  IF IsSome(applied.completed)
        THEN LET completed == Unwrap(applied.completed)
                 job == completed.job
                 need == 1 + Max(0, JOB_POOL_SIZE - (Len(applied.mining.available_jobs) + 1))
                 Outcome(t1, body, frac, fresh) ==
                     LET credits_value == FMul(job.payout_chain, t1.price)
                         nudge == apply_market_nudge(t1, job.market_impact, job.payout_chain)
                         entry == [id |-> generate_link_id(job, body),
                                   name |-> job.name,
                                   finished_at |-> (t + dt) * 1000 + frac,
                                   difficulty |-> job.difficulty,
                                   payout_chain |-> job.payout_chain,
                                   credits_at_completion |-> credits_value,
                                   duration |-> (t + dt) - completed.started_at,
                                   market_impact |-> nudge.delta]
                         pushed == Append(applied.mining.available_jobs,
                                          generate_job(fresh[1]))
                     IN  [ret |-> Some(job.payout_chain),
                          app |-> [app EXCEPT
                              !.messages = push_message(app.messages, "restored"),
                              !.bank.chain_balance = @ + job.payout_chain,
                              !.ticker = nudge.ticker,
                              !.ledger = add_entry(app.ledger, entry),
                              !.mining = [applied.mining EXCEPT !.available_jobs =
                                  replenish_pool(pushed,
                                      [i \in 1..(need - 1) |-> generate_job(fresh[i + 1])])]]]
             IN  {Outcome(t1, body, frac, fresh) :
                    t1 \in ticker_tick(app.ticker, dt, rng), body \in rng.bodies,
                    frac \in rng.fracs, fresh \in [1..need -> rng.jobs]}
        ELSE LET need == Max(0, JOB_POOL_SIZE - Len(applied.mining.available_jobs))
             IN  {[ret |-> None,
                   app |-> [app EXCEPT
                       !.ticker = t1,
                       !.mining = [applied.mining EXCEPT !.available_jobs =
                           replenish_pool(applied.mining.available_jobs,
                               [i \in 1..need |-> generate_job(fresh[i])])]]] :
                    t1 \in ticker_tick(app.ticker, dt, rng), fresh \in [1..need -> rng.jobs]}

\* a tick that does not look at the pause flag
on_tick_ungated(dt, rng) ==
    /\ Running
    /\ now + dt <= MaxClock
    /\ now' = now + dt
    /\ UNCHANGED <<focus, should_quit, paused, pause_menu, hashpower, save_file, aborted,
                   log, commands>>
    /\ \E o \in tick_outcomes(TheApp, now, dt, rng) :
          /\ IsSome(o.ret) => Len(ledger.entries) < MaxLedger
          /\ mining' = o.app.mining
          /\ bank' = o.app.bank
          /\ ledger' = o.app.ledger
          /\ ticker' = o.app.ticker
          /\ messages' = o.app.messages
          /\ last' = [op |-> "tick", ret |-> o.ret]

\* App::on_tick(dt), the clock having advanced by dt
on_tick(dt, rng) ==
    /\ Running
    /\ now + dt <= MaxClock
    /\ now' = now + dt
    /\ UNCHANGED <<focus, should_quit, paused, pause_menu, hashpower, save_file, aborted,
                   log, commands>>
    /\ IF paused
       THEN /\ UNCHANGED <<mining, bank, ledger, ticker, messages>>
            /\ last' = NoRet("tick")
       ELSE \E o \in tick_outcomes(TheApp, now, dt, rng) :
              /\ IsSome(o.ret) => Len(ledger.entries) < MaxLedger
              /\ mining' = o.app.mining
              /\ bank' = o.app.bank
              /\ ledger' = o.app.ledger
              /\ ticker' = o.app.ticker
              /\ messages' = o.app.messages
              /\ last' = [op |-> "tick", ret |-> o.ret]

\* App::handle_mining_input
handle_mining_input(key) ==
    /\ UNCHANGED <<focus, should_quit, paused, pause_menu, hashpower, bank, ledger,
                   ticker, save_file, aborted, log>>
    /\ CASE key = "Up" ->
              /\ mining' = mining_select_previous(mining)
              /\ messages' = messages
              /\ last' = NoRet("select")
         [] key = "Down" ->
              /\ mining' = mining_select_next(mining)
              /\ messages' = messages
              /\ last' = NoRet("select")
         [] key = "Enter" ->
              LET r == take_selected_job(mining)
              IN  IF IsSome(r.ret)
                  THEN /\ mining' = [r.mining EXCEPT
                                        !.active_job = Some(ActiveJob_new(Unwrap(r.ret), now))]
                       /\ messages' = push_message(messages, "accepted")
                       /\ last' = [op |-> "accept", ret |-> Some(Unwrap(r.ret).name)]
                  ELSE /\ mining' = r.mining
                       /\ messages' = messages
                       /\ last' = NoRet("accept")
         [] key = "CtrlR" ->
              /\ \E order \in Shuffles(mining.available_jobs) :
                    mining' = [mining EXCEPT !.available_jobs = order, !.selected_job = 0]
              /\ messages' = push_message(messages, "reshuffled")
              /\ last' = NoRet("reshuffle")
         [] OTHER ->
              /\ UNCHANGED <<mining, messages>>
              /\ last' = NoRet("key")

\* App::handle_hashpower_input
handle_hashpower_input(key) ==
    /\ UNCHANGED <<focus, should_quit, paused, pause_menu, mining, ledger, ticker,
                   save_file, aborted, log>>
    /\ CASE key = "Up" ->
              /\ hashpower' = hashpower_select_previous(hashpower)
              /\ UNCHANGED <<bank, messages>>
              /\ last' = NoRet("select")
         [] key = "Down" ->
              /\ hashpower' = hashpower_select_next(hashpower)
              /\ UNCHANGED <<bank, messages>>
              /\ last' = NoRet("select")
         [] key = "Enter" ->
              LET r == purchase_selected(hashpower, bank)
              IN  /\ hashpower' = r.hashpower
                  /\ bank' = r.bank
                  /\ messages' = IF IsSome(r.ret) THEN push_message(messages, "purchased")
                                 ELSE messages
                  /\ last' = [op |-> "purchase", ret |-> r.ret]
         [] OTHER ->
              /\ UNCHANGED <<hashpower, bank, messages>>
              /\ last' = NoRet("key")

\* one trade of App::handle_bank_input
Trade(op, amount, msg) ==
    LET price == ticker.price
        r == IF op = "sell" THEN sell_chain(bank, amount, price)
             ELSE buy_chain(bank, amount, price)
    IN  /\ bank' = r.bank
        /\ messages' = IF IsSome(r.ret) THEN push_message(messages, msg) ELSE messages
        /\ last' = [op |-> op, ret |-> r.ret]
        /\ log' = LogCall(op, amount, price, bank, r)

\* App::handle_bank_input
handle_bank_input(key) ==
    /\ UNCHANGED <<focus, should_quit, paused, pause_menu, mining, hashpower, ledger,
                   ticker, save_file, aborted>>
    /\ CASE key = "Left" -> Trade("sell", Unit, "sold")
         [] key = "Right" -> Trade("buy", Unit, "bought")
         [] key = "m" -> Trade("sell", 5 * Unit, "market order")
         [] key = "b" -> Trade("buy", 5 * Unit, "bulk order")
         [] OTHER ->
              /\ UNCHANGED <<bank, messages, log>>
              /\ last' = NoRet("key")

\* App::handle_ledger_input
handle_ledger_input(key) ==
    /\ UNCHANGED <<focus, should_quit, paused, pause_menu, mining, hashpower, bank,
                   ticker, messages, save_file, aborted, log>>
    /\ CASE key = "Up" -> ledger' = scroll_up(ledger) /\ last' = NoRet("scroll")
         [] key = "Down" -> ledger' = scroll_down(ledger) /\ last' = NoRet("scroll")
         [] OTHER -> ledger' = ledger /\ last' = NoRet("key")

\* what fs::write can do to the save file
WriteOutcomes == {"written", "unwritable", "truncated"}

\* a save whose snapshot is taken after the save has been announced in the feed
save_game_announced_first ==
    /\ UNCHANGED <<focus, should_quit, paused, mining, hashpower, bank, ledger, ticker,
                   aborted, log>>
    /\ \E outcome \in WriteOutcomes :
          /\ save_file' =
                CASE outcome = "written" ->
                        [kind |-> "doc",
                         doc |-> Some(SaveData_from_app(
                                    [TheApp EXCEPT !.messages =
                                        push_message(messages, "Snapshot stored to disk.")],
                                    now))]
                  [] outcome = "truncated" -> [kind |-> "unparseable", doc |-> None]
                  [] OTHER -> save_file
          /\ IF outcome = "written"
             THEN /\ pause_menu' = [pause_menu EXCEPT !.status = Some("Game saved.")]
                  /\ messages' = push_message(messages, "Snapshot stored to disk.")
                  /\ last' = [op |-> "save", ret |-> Some("ok")]
             ELSE /\ pause_menu' = [pause_menu EXCEPT !.status = Some("Save failed")]
                  /\ messages' = push_message(messages, "Save error")
                  /\ last' = [op |-> "save", ret |-> Some("err")]

\* App::save_game and the Save arm of App::activate_pause_selection
save_game ==
    /\ UNCHANGED <<focus, should_quit, paused, mining, hashpower, bank, ledger, ticker,
                   aborted, log>>
    /\ \E outcome \in WriteOutcomes :
          /\ save_file' =
                CASE outcome = "written" ->
                        [kind |-> "doc", doc |-> Some(SaveData_from_app(TheApp, now))]
                  [] outcome = "truncated" -> [kind |-> "unparseable", doc |-> None]
                  [] OTHER -> save_file
          /\ IF outcome = "written"
             THEN /\ pause_menu' = [pause_menu EXCEPT !.status = Some("Game saved.")]
                  /\ messages' = push_message(messages, "Snapshot stored to disk.")
                  /\ last' = [op |-> "save", ret |-> Some("ok")]
             ELSE /\ pause_menu' = [pause_menu EXCEPT !.status = Some("Save failed")]
                  /\ messages' = push_message(messages, "Save error")
                  /\ last' = [op |-> "save", ret |-> Some("err")]

\* a load that drops the active contract when the file cannot be used
load_game_dropping ==
    /\ UNCHANGED <<should_quit, paused, save_file, log>>
    /\ IF save_file.kind # "doc"
       THEN /\ UNCHANGED <<focus, hashpower, bank, ledger, ticker, aborted>>
            /\ mining' = [mining EXCEPT !.active_job = None]
            /\ pause_menu' = [pause_menu EXCEPT !.status = Some("Load failed")]
            /\ messages' = push_message(messages, "Load error")
            /\ last' = [op |-> "load",
                        ret |-> Some(CASE save_file.kind = "missing" -> "no save data available"
                                       [] save_file.kind = "unreadable" -> "reading"
                                       [] OTHER -> "parsing stored game state")]
       ELSE LET r == SaveData_apply(Unwrap(save_file.doc), TheApp, now)
            IN  /\ focus' = r.app.focus
                /\ mining' = r.app.mining
                /\ hashpower' = r.app.hashpower
                /\ bank' = r.app.bank
                /\ ledger' = r.app.ledger
                /\ ticker' = r.app.ticker
                /\ CASE r.result = "ok" ->
                          /\ aborted' = FALSE
                          /\ pause_menu' = [pause_menu EXCEPT !.status = Some("Game loaded.")]
                          /\ messages' = push_message(r.app.messages,
                                                      "Restored state from snapshot.")
                          /\ last' = [op |-> "load", ret |-> Some("ok")]
                     [] r.result = "err" ->
                          /\ aborted' = FALSE
                          /\ pause_menu' = [pause_menu EXCEPT !.status = Some("Load failed")]
                          /\ messages' = push_message(r.app.messages, "Load error")
                          /\ last' = [op |-> "load",
                                      ret |-> Some("invalid timestamp in save data")]
                     [] OTHER ->
                          /\ aborted' = TRUE
                          /\ pause_menu' = pause_menu
                          /\ messages' = r.app.messages
                          /\ last' = [op |-> "load", ret |-> Some("panic")]

\* App::load_game and the Load arm of App::activate_pause_selection
load_game ==
    /\ UNCHANGED <<should_quit, paused, save_file, log>>
    /\ IF save_file.kind # "doc"
       THEN /\ UNCHANGED <<focus, mining, hashpower, bank, ledger, ticker, aborted>>
            /\ pause_menu' = [pause_menu EXCEPT !.status = Some("Load failed")]
            /\ messages' = push_message(messages, "Load error")
            /\ last' = [op |-> "load",
                        ret |-> Some(CASE save_file.kind = "missing" -> "no save data available"
                                       [] save_file.kind = "unreadable" -> "reading"
                                       [] OTHER -> "parsing stored game state")]
       ELSE LET r == SaveData_apply(Unwrap(save_file.doc), TheApp, now)
            IN  /\ focus' = r.app.focus
                /\ mining' = r.app.mining
                /\ hashpower' = r.app.hashpower
                /\ bank' = r.app.bank
                /\ ledger' = r.app.ledger
                /\ ticker' = r.app.ticker
                /\ CASE r.result = "ok" ->
                          /\ aborted' = FALSE
                          /\ pause_menu' = [pause_menu EXCEPT !.status = Some("Game loaded.")]
                          /\ messages' = push_message(r.app.messages,
                                                      "Restored state from snapshot.")
                          /\ last' = [op |-> "load", ret |-> Some("ok")]
                     [] r.result = "err" ->
                          /\ aborted' = FALSE
                          /\ pause_menu' = [pause_menu EXCEPT !.status = Some("Load failed")]
                          /\ messages' = push_message(r.app.messages, "Load error")
                          /\ last' = [op |-> "load",
                                      ret |-> Some("invalid timestamp in save data")]
                     [] OTHER ->
                          /\ aborted' = TRUE
                          /\ pause_menu' = pause_menu
                          /\ messages' = r.app.messages
                          /\ last' = [op |-> "load", ret |-> Some("panic")]

\* App::resume
resume ==
    /\ paused' = FALSE
    /\ pause_menu' = [pause_menu EXCEPT !.status = None]
    /\ last' = NoRet("resume")
    /\ UNCHANGED <<focus, should_quit, mining, hashpower, bank, ledger, ticker, messages,
                   save_file, aborted, log>>

\* App::enter_pause
enter_pause ==
    /\ paused' = TRUE
    /\ pause_menu' = [pause_menu EXCEPT !.status = None]
    /\ last' = NoRet("pause")
    /\ UNCHANGED <<focus, should_quit, mining, hashpower, bank, ledger, ticker, messages,
                   save_file, aborted, log>>

\* App::activate_pause_selection
activate_pause_selection ==
    CASE PauseOptions[pause_menu.selected + 1] = "Resume" -> resume
      [] PauseOptions[pause_menu.selected + 1] = "Save" -> save_game
      [] PauseOptions[pause_menu.selected + 1] = "Load" -> load_game
      [] OTHER ->
           /\ should_quit' = TRUE
           /\ last' = NoRet("quit")
           /\ UNCHANGED <<focus, paused, pause_menu, mining, hashpower, bank, ledger,
                          ticker, messages, save_file, aborted, log>>

\* App::handle_pause_input
handle_pause_input(key) ==
    CASE key = "Up" ->
           /\ pause_menu' = [pause_menu EXCEPT !.selected =
                                IF @ = 0 THEN Len(PauseOptions) - 1 ELSE @ - 1]
           /\ last' = NoRet("select")
           /\ UNCHANGED <<focus, should_quit, paused, mining, hashpower, bank, ledger,
                          ticker, messages, save_file, aborted, log>>
      [] key = "Down" ->
           /\ pause_menu' = [pause_menu EXCEPT !.selected = (@ + 1) % Len(PauseOptions)]
           /\ last' = NoRet("select")
           /\ UNCHANGED <<focus, should_quit, paused, mining, hashpower, bank, ledger,
                          ticker, messages, save_file, aborted, log>>
      [] key = "Enter" -> activate_pause_selection
      [] key \in {"Esc", "q"} -> resume
      [] OTHER ->
           /\ last' = NoRet("key")
           /\ UNCHANGED <<focus, should_quit, paused, pause_menu, mining, hashpower, bank,
                          ledger, ticker, messages, save_file, aborted, log>>

\* App::on_key, for a key press
on_key(key) ==
    /\ Running
    /\ commands < MaxCommands
    /\ commands' = commands + 1
    /\ now' = now
    /\ IF paused THEN handle_pause_input(key)
       ELSE IF key = "q" THEN enter_pause
       ELSE IF key \in {"Tab", "BackTab"}
       THEN /\ focus' = IF key = "Tab" THEN FocusNext(focus) ELSE FocusPrev(focus)
            /\ last' = NoRet("focus")
            /\ UNCHANGED <<should_quit, paused, pause_menu, mining, hashpower, bank, ledger,
                           ticker, messages, save_file, aborted, log>>
       ELSE CASE focus = "Mining" -> handle_mining_input(key)
              [] focus = "Hashpower" -> handle_hashpower_input(key)
              [] focus = "Bank" -> handle_bank_input(key)
              [] OTHER -> handle_ledger_input(key)

---------------------------------------------------------------------------
(* Direct calls of the components' public operations *)

\* the amounts and prices BankState is called with: beside the program's
\* 1.0 and 5.0
TradeAmounts == {Unit \div 2, 2 * Unit}

\* BankState::sell_chain or buy_chain, called with an amount at the ticker's price
call_bank(op, amount) ==
    LET r == IF op = "sell" THEN sell_chain(bank, amount, ticker.price)
             ELSE buy_chain(bank, amount, ticker.price)
    IN  /\ Running
        /\ commands < MaxCommands
        /\ commands' = commands + 1
        /\ bank' = r.bank
        /\ last' = [op |-> op, ret |-> r.ret]
        /\ log' = LogCall(op, amount, ticker.price, bank, r)
        /\ UNCHANGED <<focus, should_quit, paused, pause_menu, mining, hashpower, ledger,
                       ticker, messages, save_file, now, aborted>>

\* the amounts of work apply_work is called with
WorkAmounts == {0, 200000, 399999, 999999, 1800000, 2000000, 4400000}

\* ActiveJob::apply_work, called directly on the active contract
call_apply_work(work) ==
    /\ Running
    /\ commands < MaxCommands
    /\ IsSome(mining.active_job)
    /\ commands' = commands + 1
    /\ mining' = [mining EXCEPT
                     !.active_job = Some(ActiveJob_apply_work(Unwrap(mining.active_job), work))]
    /\ last' = [op |-> "apply_work", ret |-> Some(work)]
    /\ log' = Append(log, [op |-> "apply_work", amount |-> work])
    /\ UNCHANGED <<focus, should_quit, paused, pause_menu, hashpower, bank, ledger, ticker,
                   messages, save_file, now, aborted>>

\* the impacts and payouts apply_market_nudge is called with
NudgeImpacts == {-800000, 1199999}
NudgePayouts == {MIN_PAYOUT, 1000 * Unit}

\* TickerState::apply_market_nudge, called directly
call_nudge(impact, payout) ==
    LET r == apply_market_nudge(ticker, impact, payout)
    IN  /\ Running
        /\ commands < MaxCommands
        /\ commands' = commands + 1
        /\ ticker' = r.ticker
        /\ last' = [op |-> "nudge", ret |-> Some(r.delta)]
        /\ UNCHANGED <<focus, should_quit, paused, pause_menu, mining, hashpower, bank,
                       ledger, messages, save_file, now, aborted, log>>

\* TickerState::tick, called directly, the clock having advanced by dt
call_tick(dt, rng) ==
    /\ Running
    /\ now + dt <= MaxClock
    /\ now' = now + dt
    /\ ticker' \in ticker_tick(ticker, dt, rng)
    /\ last' = NoRet("ticker.tick")
    /\ UNCHANGED <<focus, should_quit, paused, pause_menu, mining, hashpower, bank, ledger,
                   messages, save_file, aborted, log, commands>>

\* what the generator of generate_job can draw: gen_range(3..=6) rows,
\* gen_range(4..=8) columns, log-normal samples small, usual and large, a rate
\* from either end of 0.05..0.09 and an impact from the top of -0.8..1.2
GridRows == 3..6
GridCols == 4..8
SampleRuns == {<<100000>>, <<100000, 2225541>>, <<2225541, 9000000, 171429>>}
PayoutRates == {50000, 89999}

GenDraws ==
    {[name |-> "Dim Node", lore |-> "lore-1", rows |-> r, cols |-> c,
      samples |-> s, rate |-> p, impact |-> i] :
        r \in GridRows, c \in GridCols, s \in SampleRuns, p \in PayoutRates,
        i \in {1199999}}

\* generate_job, called directly
call_generate_job(draw) ==
    /\ Running
    /\ commands < MaxCommands
    /\ commands' = commands + 1
    /\ last' = [op |-> "generate", ret |-> Some(generate_job(draw))]
    /\ UNCHANGED <<focus, should_quit, paused, pause_menu, mining, hashpower, bank, ledger,
                   ticker, messages, save_file, now, aborted, log>>

---------------------------------------------------------------------------
(* Snapshots found on disk: written by an earlier session, or edited since *)

\* the app of an earlier session
EarlierApp ==
    [focus |-> "Bank",
     mining |->
        [available_jobs |-> <<generate_job(DrawSmall), generate_job(DrawOdd),
                              generate_job(DrawSmall), generate_job(DrawSmall)>>,
         selected_job |-> 2,
         active_job |-> Some(ActiveJob_apply_work(
                                 ActiveJob_new(generate_job(DrawOdd), 0), 3 * Unit))],
     hashpower |-> [owned |-> <<2, 1, 0, 0, 0, 0, 0, 0, 0, 0>>, selected |-> 1],
     bank |-> [chain_balance |-> 3500000, credits_balance |-> 250000000],
     ledger |->
        [entries |-> <<[id |-> generate_link_id(generate_job(DrawSmall), "K3Q9ZD"),
                        name |-> "Dim Node",
                        finished_at |-> 5000250,
                        difficulty |-> generate_job(DrawSmall).difficulty,
                        payout_chain |-> MIN_PAYOUT,
                        credits_at_completion |-> 25600000,
                        duration |-> 5000,
                        market_impact |-> -6400]>>,
         scroll |-> 0],
     ticker |-> [price |-> 30500000, last_delta |-> -6400,
                 history |-> <<INITIAL_PRICE, 30506400, 30500000>>,
                 time_since_update |-> 2000, update_interval |-> 7000],
     messages |-> <<"restored", "accepted">>]

DocEarlier == SaveData_from_app(EarlierApp, 9000)

\* edited out of band
DocBadTimestamp == [DocEarlier EXCEPT !.ledger[1].finished_at_ms = ChronoMaxMs + 1]
DocFewTiers == [DocEarlier EXCEPT !.hashpower_owned = <<3, 2, 1>>]
DocManyTiers == [DocEarlier EXCEPT !.hashpower_owned = <<1, 0, 0, 0, 0, 0, 0, 0, 0, 0, 7>>]
DocHugeElapsed == [DocEarlier EXCEPT !.mining.active_job[1].elapsed_secs = DurationMax + 1]
DocHugeDuration == [DocEarlier EXCEPT !.ledger[1].duration_secs = DurationMax + 1]
DocHugeTimer == [DocEarlier EXCEPT !.ticker.time_since_update_secs = DurationMax + 1]

ExternalFiles ==
    {[kind |-> "missing", doc |-> None],
     [kind |-> "unreadable", doc |-> None],
     [kind |-> "unparseable", doc |-> None]}
    \cup {[kind |-> "doc", doc |-> Some(d)] :
            d \in {DocEarlier, DocBadTimestamp, DocFewTiers, DocManyTiers,
                   DocHugeElapsed, DocHugeDuration, DocHugeTimer}}

\* the save file is replaced from outside the program
EditFile ==
    /\ Running
    /\ save_file' \in ExternalFiles
    /\ UNCHANGED <<focus, should_quit, paused, pause_menu, mining, hashpower, bank, ledger,
                   ticker, messages, now, aborted, last, log, commands, channel>>

---------------------------------------------------------------------------
(* Events and specifications *)

Tick == \E dt \in TickDurations : on_tick(dt, RngFull) /\ UNCHANGED channel
TickCalm == \E dt \in TickDurations : on_tick(dt, RngCalm) /\ UNCHANGED channel
KeyTab == on_key("Tab") /\ UNCHANGED channel
KeyBackTab == on_key("BackTab") /\ UNCHANGED channel
KeyUp == on_key("Up") /\ UNCHANGED channel
KeyDown == on_key("Down") /\ UNCHANGED channel
KeyEnter == on_key("Enter") /\ UNCHANGED channel
KeyLeft == on_key("Left") /\ UNCHANGED channel
KeyRight == on_key("Right") /\ UNCHANGED channel
KeyM == on_key("m") /\ UNCHANGED channel
KeyB == on_key("b") /\ UNCHANGED channel
KeyCtrlR == on_key("CtrlR") /\ UNCHANGED channel
KeyQ == on_key("q") /\ UNCHANGED channel
KeyEsc == on_key("Esc") /\ UNCHANGED channel

Next ==
    \/ Tick
    \/ KeyTab
    \/ KeyBackTab
    \/ KeyUp
    \/ KeyDown
    \/ KeyEnter
    \/ KeyLeft
    \/ KeyRight
    \/ KeyM
    \/ KeyB
    \/ KeyCtrlR
    \/ KeyQ
    \/ KeyEsc
    \/ EditFile

\* the program: App::new, then the events of run_app
Spec == Init /\ [][Next]_vars

\* the simulation played without the pause menu: ticks and commands
NextPlay ==
    \/ TickCalm
    \/ KeyTab
    \/ KeyDown
    \/ KeyEnter
    \/ KeyLeft
    \/ KeyRight
    \/ KeyM
    \/ KeyB
    \/ KeyCtrlR

SpecPlay == Init /\ [][NextPlay]_vars

\* the pause menu, with whatever save file is on disk
NextPersist ==
    \/ KeyQ
    \/ KeyUp
    \/ KeyDown
    \/ KeyEnter
    \/ KeyEsc
    \/ EditFile

SpecPersist == Init /\ [][NextPersist]_vars

\* The hashpower pane of a game in progress: some tiers owned, some credits
\* earned, the focus on the pane.
ShopCredits == {88499999, 88500000, 104430000, 420000000, 600000000}

InitShop ==
    \E p \in 1..2, v \in 0..1, sel \in 0..1, credits \in ShopCredits :
        AppWith("Hashpower",
                MiningState_new(<<DrawSmall, DrawOdd, DrawSmall, DrawOdd>>),
                [owned |-> <<p, v, 0, 0, 0, 0, 0, 0, 0, 0>>, selected |-> sel],
                [chain_balance |-> 2500000, credits_balance |-> credits],
                TickerState_new(INITIAL_PRICE, Secs(PRICE_UPDATE_MIN_SECS)))

NextShop ==
    \/ KeyUp
    \/ KeyDown
    \/ KeyEnter

SpecShop == InitShop /\ [][NextShop]_vars

\* The bank pane of a game in progress: balances at and around the traded
\* amounts, the price at the floor, at the start value and between.
BankChains == {0, 499999, 999998, 999999, 5 * Unit}
BankCredits == {0, 252499, 32320000, INITIAL_CREDITS}
BankPrices == {PRICE_FLOOR, 333400, INITIAL_PRICE}

InitBank ==
    \E chain \in BankChains, credits \in BankCredits, price \in BankPrices :
        AppWith("Bank",
                MiningState_new(<<DrawSmall, DrawOdd, DrawSmall, DrawOdd>>),
                HashpowerState_new,
                [chain_balance |-> chain, credits_balance |-> credits],
                TickerState_new(price, Secs(PRICE_UPDATE_MIN_SECS)))

BankCall == \E op \in {"sell", "buy"}, amount \in TradeAmounts : call_bank(op, amount) /\ UNCHANGED channel

NextBank ==
    \/ KeyLeft
    \/ KeyRight
    \/ KeyM
    \/ KeyB
    \/ BankCall

SpecBank == InitBank /\ [][NextBank]_vars

\* A ticker on its own, from a price at the floor, near it, or at the start value
TickerPrices == {PRICE_FLOOR, 300000, INITIAL_PRICE}

InitTicker ==
    \E price \in TickerPrices :
        AppWith("Mining",
                MiningState_new(<<DrawSmall, DrawOdd, DrawSmall, DrawOdd>>),
                HashpowerState_new, BankState_default,
                TickerState_new(price, Secs(PRICE_UPDATE_MIN_SECS)))

\* every walk draw, the update interval always the shortest
RngWalks == [RngFull EXCEPT !.intervals = {Secs(PRICE_UPDATE_MIN_SECS)}]

TickerTick == \E dt \in TickDurations : call_tick(dt, RngWalks) /\ UNCHANGED channel
TickerNudge == \E impact \in NudgeImpacts, payout \in NudgePayouts : call_nudge(impact, payout) /\ UNCHANGED channel

NextTicker ==
    \/ TickerTick
    \/ TickerNudge

SpecTicker == InitTicker /\ [][NextTicker]_vars

\* The mining pane: the first pool of App::new, or the empty pool a restored
\* snapshot can leave, and every contract generated later a new one
MinePools == InitialPools \cup {<<DrawSkew, DrawSmall, DrawOdd, DrawSmall>>}

MiningState_empty == [available_jobs |-> <<>>, selected_job |-> 0, active_job |-> None]

InitMine ==
    \E m \in {MiningState_new(pool) : pool \in MinePools} \cup {MiningState_empty} :
        AppWith("Mining", m, HashpowerState_new, BankState_default,
                TickerState_new(INITIAL_PRICE, Secs(PRICE_UPDATE_MAX_SECS)))

TickFresh == \E dt \in TickDurations : on_tick(dt, RngFresh) /\ UNCHANGED channel

NextMine ==
    \/ TickFresh
    \/ KeyUp
    \/ KeyDown
    \/ KeyEnter

SpecMine == InitMine /\ [][NextMine]_vars

\* Play with the pause menu: the pane commands, the pause key and the ticks
NextPause ==
    \/ TickCalm
    \/ KeyQ
    \/ KeyEsc
    \/ KeyTab
    \/ KeyDown
    \/ KeyEnter
    \/ KeyLeft

SpecPause == Init /\ [][NextPause]_vars

\* moving the two selections about while contracts are accepted, reshuffled and mined
NextSelect ==
    \/ TickFresh
    \/ KeyTab
    \/ KeyUp
    \/ KeyDown
    \/ KeyEnter
    \/ KeyCtrlR

SpecSelect == Init /\ [][NextSelect]_vars

\* snapshots edited or truncated out of band: every cursor past its collection,
\* seven messages; and the collections emptied under the cursors
DocWildCursors ==
    [DocEarlier EXCEPT !.mining.selected_job = 9,
                       !.mining.active_job[1].current_index = 50,
                       !.hashpower_selected = 99,
                       !.ledger_scroll = 7,
                       !.messages = <<"m1", "m2", "m3", "m4", "m5", "m6", "m7">>]

DocEmptied ==
    [DocEarlier EXCEPT !.mining.available_jobs = <<>>,
                       !.mining.selected_job = 3,
                       !.mining.active_job[1].linklets = <<>>,
                       !.mining.active_job[1].current_index = 3,
                       !.ledger = <<>>,
                       !.ledger_scroll = 2]

CursorFiles == {[kind |-> "doc", doc |-> Some(d)] : d \in {DocWildCursors, DocEmptied}}

EditCursors ==
    /\ Running
    /\ save_file' \in CursorFiles
    /\ UNCHANGED <<focus, should_quit, paused, pause_menu, mining, hashpower, bank, ledger,
                   ticker, messages, now, aborted, last, log, commands, channel>>

\* A game in progress with the pause menu open on Load, and a save file that
\* is replaced from outside between the loads
InitRestore ==
    /\ focus = EarlierApp.focus
    /\ should_quit = FALSE
    /\ paused = TRUE
    /\ pause_menu = [selected |-> 2, status |-> None]
    /\ mining = EarlierApp.mining
    /\ hashpower = EarlierApp.hashpower
    /\ bank = EarlierApp.bank
    /\ ledger = EarlierApp.ledger
    /\ ticker = EarlierApp.ticker
    /\ messages = EarlierApp.messages
    /\ save_file = [kind |-> "missing", doc |-> None]
    /\ now = 9000
    /\ aborted = FALSE
    /\ last = NoRet("select")
    /\ log = <<>>
    /\ commands = 0
    /\ channel = ChannelEmpty

NextRestore ==
    \/ KeyEnter
    \/ KeyUp
    \/ KeyDown
    \/ KeyEsc
    \/ EditFile
    \/ EditCursors

SpecRestore == InitRestore /\ [][NextRestore]_vars

\* a snapshot whose scroll offset lies past its two ledger entries
DocLongLedger ==
    [DocEarlier EXCEPT !.ledger = <<[DocEarlier.ledger[1] EXCEPT !.name = "Hollow Relay"],
                                    DocEarlier.ledger[1]>>,
                       !.ledger_scroll = 5]

ScrollFiles == CursorFiles \cup {[kind |-> "doc", doc |-> Some(DocLongLedger)]}

EditScroll ==
    /\ Running
    /\ save_file' \in ScrollFiles
    /\ UNCHANGED <<focus, should_quit, paused, pause_menu, mining, hashpower, bank, ledger,
                   ticker, messages, now, aborted, last, log, commands, channel>>

\* A game in progress with the ledger pane in focus, running or with the pause
\* menu open on Load
InitScroll ==
    /\ focus = "Ledger"
    /\ should_quit = FALSE
    /\ paused \in BOOLEAN
    /\ pause_menu = [selected |-> IF paused THEN 2 ELSE 0, status |-> None]
    /\ mining = EarlierApp.mining
    /\ hashpower = EarlierApp.hashpower
    /\ bank = EarlierApp.bank
    /\ ledger = EarlierApp.ledger
    /\ ticker = EarlierApp.ticker
    /\ messages = EarlierApp.messages
    /\ save_file = [kind |-> "doc", doc |-> Some(DocEarlier)]
    /\ now = 0
    /\ aborted = FALSE
    /\ last = NoRet("key")
    /\ log = <<>>
    /\ commands = 0
    /\ channel = ChannelEmpty

NextScroll ==
    \/ TickCalm
    \/ KeyUp
    \/ KeyDown
    \/ KeyEnter
    \/ KeyEsc
    \/ EditScroll

SpecScroll == InitScroll /\ [][NextScroll]_vars

\* snapshots whose active contract has been running for a negative time, for
\* longer than the clock of this machine goes back, and for longer than a
\* Duration can hold
DocNegativeElapsed == [DocEarlier EXCEPT !.mining.active_job[1].elapsed_secs = -3000]
DocLongElapsed == [DocEarlier EXCEPT !.mining.active_job[1].elapsed_secs = ClockOrigin + 40000]

ElapsedFiles ==
    {[kind |-> "doc", doc |-> Some(d)] :
        d \in {DocEarlier, DocNegativeElapsed, DocLongElapsed, DocHugeElapsed}}

EditElapsed ==
    /\ Running
    /\ save_file' \in ElapsedFiles
    /\ UNCHANGED <<focus, should_quit, paused, pause_menu, mining, hashpower, bank, ledger,
                   ticker, messages, now, aborted, last, log, commands, channel>>

\* loads of those snapshots, with ticks of the paused game between them
NextElapsed ==
    \/ TickCalm
    \/ KeyEnter
    \/ KeyUp
    \/ KeyDown
    \/ KeyEsc
    \/ EditElapsed

SpecElapsed == InitRestore /\ [][NextElapsed]_vars

\* a snapshot written before the contract now active was accepted
DocIdle == [DocEarlier EXCEPT !.mining.active_job = None]

\* A game in progress, a contract accepted and partly mined, with one rig or
\* with three, running or with the pause menu open on Load, and that snapshot
\* on disk
InitLive ==
    /\ focus = EarlierApp.focus
    /\ should_quit = FALSE
    /\ paused \in BOOLEAN
    /\ pause_menu = [selected |-> IF paused THEN 2 ELSE 0, status |-> None]
    /\ mining = EarlierApp.mining
    /\ hashpower \in {HashpowerState_new, EarlierApp.hashpower}
    /\ bank = EarlierApp.bank
    /\ ledger = EarlierApp.ledger
    /\ ticker = EarlierApp.ticker
    /\ messages = EarlierApp.messages
    /\ save_file = [kind |-> "doc", doc |-> Some(DocIdle)]
    /\ now = 0
    /\ aborted = FALSE
    /\ last = NoRet("key")
    /\ log = <<>>
    /\ commands = 0
    /\ channel = ChannelEmpty

NextLive ==
    \/ TickCalm
    \/ KeyEnter
    \/ KeyEsc
    \/ KeyBackTab

\* the step of a tick, seen on the clock alone: every step of TickCalm is one,
\* and no step of a key is
ClockAdvances ==
    /\ Running
    /\ \E dt \in TickDurations : now + dt <= MaxClock /\ now' = now + dt

\* the tick thread sends a tick every tick_rate for as long as the program
\* runs, and the main loop handles every event it receives
SpecLive == InitLive /\ [][NextLive]_vars /\ WF_now(ClockAdvances)

\* contracts generated one after another
Generate == \E draw \in GenDraws : call_generate_job(draw) /\ UNCHANGED channel

NextGen == Generate

\* App::new at the point where the empty pool is about to be filled
InitGen ==
    AppWith("Mining", MiningState_empty, HashpowerState_new, BankState_default,
            TickerState_new(INITIAL_PRICE, Secs(PRICE_UPDATE_MAX_SECS)))

SpecGen == InitGen /\ [][NextGen]_vars

\* A ticker late in a game or just restored: a price history short, one short
\* of its capacity or full, the timer anywhere up to the interval
HistoryOf(n) == [i \in 1..n |-> INITIAL_PRICE - n + i]

WalkHistories == {HistoryOf(1), HistoryOf(HISTORY_CAPACITY - 1), HistoryOf(HISTORY_CAPACITY)}

WalkTimers == {[time |-> 0, interval |-> 1000],
               [time |-> 6000, interval |-> 7000],
               [time |-> 40000, interval |-> 60000]}

InitWalk ==
    \E h \in WalkHistories, w \in WalkTimers :
        AppWith("Mining",
                MiningState_new(<<DrawSmall, DrawOdd, DrawSmall, DrawOdd>>),
                HashpowerState_new, BankState_default,
                ticker_from_save([price |-> INITIAL_PRICE,
                                  last_delta |-> 0,
                                  history |-> h,
                                  time_since_update_secs |-> w.time,
                                  update_interval_secs |-> w.interval]))

\* one walk, and either end of the interval's range at every roll
RngSteps == [RngCalm EXCEPT !.intervals = IntervalDraws]

WalkTick == \E dt \in TickDurations : call_tick(dt, RngSteps) /\ UNCHANGED channel
WalkNudge == \E impact \in NudgeImpacts : call_nudge(impact, MIN_PAYOUT) /\ UNCHANGED channel

NextWalk ==
    \/ WalkTick
    \/ WalkNudge

SpecWalk == InitWalk /\ [][NextWalk]_vars

\* Contracts completed and nudges applied at a price at the floor, just above
\* it, or far from it
NudgePrices == {PRICE_FLOOR, PRICE_FLOOR + 3000, INITIAL_PRICE}

InitNudge ==
    \E price \in NudgePrices, pool \in InitialPools :
        AppWith("Mining", MiningState_new(pool), HashpowerState_new, BankState_default,
                TickerState_new(price, Secs(PRICE_UPDATE_MAX_SECS)))

NextNudge ==
    \/ KeyDown
    \/ KeyEnter
    \/ TickCalm
    \/ TickerNudge

SpecNudge == InitNudge /\ [][NextNudge]_vars

\* run_app: the input thread and the tick thread send into one channel, the
\* main loop takes one event at a time and runs its handler
TickRate == 200
MaxSends == 3
LoopKeys == {"Down", "Enter"}

Event(src, seq, key) == [src |-> src, seq |-> seq, key |-> key]

\* tx.send(event) by the thread src
Send(src, key) ==
    /\ Running
    /\ channel.sent[src] < MaxSends
    /\ channel' = [channel EXCEPT
                      !.queue = Append(@, Event(src, channel.sent[src] + 1, key)),
                      !.sent[src] = @ + 1]
    /\ UNCHANGED <<focus, should_quit, paused, pause_menu, mining, hashpower, bank, ledger,
                   ticker, messages, save_file, now, aborted, last, log, commands>>

\* the input thread: event::read(), then input_tx.send(Event::Input(key))
input_thread == \E key \in LoopKeys : Send("input", key)

\* the tick thread: tx.send(Event::Tick), then thread::sleep(tick_rate)
tick_thread == Send("tick", "none")

\* the handler of an event
Handle(event) ==
    IF event.src = "input" THEN on_key(event.key) ELSE on_tick(TickRate, RngCalm)

\* a main loop that takes the newest event in the channel
run_app_newest ==
    /\ channel.queue # <<>>
    /\ LET event == channel.queue[Len(channel.queue)]
       IN  /\ channel' = [channel EXCEPT
                             !.queue = SubSeq(@, 1, Len(@) - 1),
                             !.taken[event.src] = event.seq]
           /\ Handle(event)

\* the main loop of run_app: rx.recv()?, then the handler of the event
run_app ==
    /\ channel.queue # <<>>
    /\ LET event == Head(channel.queue)
       IN  /\ channel' = [channel EXCEPT
                             !.queue = Tail(@),
                             !.taken[event.src] = event.seq]
           /\ Handle(event)

NextLoop ==
    \/ input_thread
    \/ tick_thread
    \/ run_app

SpecLoop == Init /\ [][NextLoop]_vars

\* A contract accepted from the first pool and worked on call by call
ApplyWork == \E work \in WorkAmounts : call_apply_work(work) /\ UNCHANGED channel

NextWork ==
    \/ KeyDown
    \/ KeyEnter
    \/ ApplyWork

SpecWork == Init /\ [][NextWork]_vars

---------------------------------------------------------------------------
(* Properties *)

\* the step just taken was a command that ended in the operation op
Handled(op) == commands' = commands + 1 /\ last'.op = op

\* the step left what a snapshot covers as it was, but for the line reporting a
\* failed load
RestoreLeftStateAlone ==
    /\ focus' = focus
    /\ mining' = mining
    /\ hashpower' = hashpower
    /\ bank' = bank
    /\ ledger' = ledger
    /\ ticker' = ticker
    /\ messages' = push_message(messages, "Load error")

\* C1: restore is all-or-nothing: when applying a snapshot fails on a ledger
\* entry's timestamp, focus, contract pool, selection, active contract, owned
\* counts, balances, ledger, ticker and messages are what they were before the
\* restore (the failure's own report aside).
C1_RestoreAllOrNothing ==
    [][(Handled("load") /\ last'.ret = Some("invalid timestamp in save data"))
         => RestoreLeftStateAlone]_vars

\* C2: restoring a snapshot whose owned-count list is not TierCount long is
\* detected: the restore fails and the simulation is left unchanged.
C2_TierCountMismatchDetected ==
    [][(/\ Handled("load")
        /\ save_file.kind = "doc"
        /\ Len(Unwrap(save_file.doc).hashpower_owned) # TierCount)
         => (last'.ret # Some("ok") /\ ~aborted' /\ RestoreLeftStateAlone)]_vars

\* C3: in every state reached from App::new by ticks and commands both balances
\* are greater than or equal to 0.
C3_BalancesNonNegative == bank.chain_balance >= 0 /\ bank.credits_balance >= 0

\* C4: no load is fatal: whatever the numbers in a well-formed snapshot, the
\* process is never aborted.
C4_LoadNeverAborts == aborted = FALSE

RECURSIVE Pow(_, _)
Pow(b, n) == IF n = 0 THEN 1 ELSE b * Pow(b, n - 1)

\* base_cost * growth_multiplier^n in millionths, written out where it is exact
\* and below MoneyCeil
PriceOfNext(i, n) ==
    IF n <= 3 /\ Tiers[i].base_cost < 500
    THEN Tiers[i].base_cost * Pow(Tiers[i].cost_multiplier_pct, n) * (Unit \div Pow(100, n))
    ELSE cost_for_next(Tiers[i], n)

\* C5: purchasing the selected tier, owned n times, with credits of at least
\* base_cost * growth_multiplier^n succeeds: it returns that cost, takes exactly
\* that cost from the credits, adds 1 to that tier's count, and leaves the other
\* counts and the chain balance unchanged.
C5_PurchaseSucceeds ==
    [][LET i == hashpower.selected + 1
           cost == PriceOfNext(i, hashpower.owned[i])
       IN  (Handled("purchase") /\ bank.credits_balance >= cost)
             => /\ last'.ret = Some(cost)
                /\ bank'.credits_balance = bank.credits_balance - cost
                /\ bank'.chain_balance = bank.chain_balance
                /\ hashpower'.owned[i] = hashpower.owned[i] + 1
                /\ \A j \in 1..TierCount :
                       j # i => hashpower'.owned[j] = hashpower.owned[j]]_vars

\* a purchase has just succeeded on a tier owned more than once
C5_Witness ==
    /\ last.op = "purchase"
    /\ IsSome(last.ret)
    /\ hashpower.owned[hashpower.selected + 1] >= 3

\* C6: purchasing the selected tier with credits below its next cost returns
\* None and leaves the owned counts, both balances and the messages unchanged.
C6_PurchaseRejected ==
    [][LET i == hashpower.selected + 1
           cost == PriceOfNext(i, hashpower.owned[i])
       IN  (Handled("purchase") /\ bank.credits_balance < cost)
             => /\ last'.ret = None
                /\ hashpower' = hashpower
                /\ bank' = bank
                /\ messages' = messages]_vars

\* a purchase has just been rejected, after one that succeeded
C6_Witness ==
    /\ last.op = "purchase"
    /\ last.ret = None
    /\ Len(messages) > 0

\* the last two calls of the bank were a successful buy and then, on the bank
\* as the buy left it, a sell of the same amount at the same price
BoughtThenSold ==
    /\ Len(log) = 2
    /\ log[1].op = "buy"
    /\ IsSome(log[1].ret)
    /\ log[2].op = "sell"
    /\ log[2].amount = log[1].amount
    /\ log[2].price = log[1].price
    /\ log[2].before = log[1].after

TheCall == log'[Len(log')]

\* the step just taken called the bank's op on the bank as it was
Called(op) ==
    /\ Handled(op)
    /\ TheCall.op = op
    /\ TheCall.before = bank
    /\ TheCall.price = ticker.price
    /\ TheCall.after = bank'

\* amount * price * pct / 100, the product taken first
Priced(amount, price, pct) == MulDiv(FMul(amount, price), pct, 100)

\* C8: sell(amount, price) succeeds exactly when the chain balance is at least
\* amount within TRADE_EPSILON; then it returns amount * price * 0.99, takes
\* amount from the chain balance and adds the proceeds to the credits;
\* otherwise it returns None and changes neither balance.
C8_SellExact ==
    [][Handled("sell")
         => /\ Called("sell")
            /\ LET amount == TheCall.amount
                   proceeds == Priced(amount, ticker.price, EXCHANGE_SELL_MULTIPLIER_PCT)
               IN  IF bank.chain_balance + TRADE_EPSILON >= amount
                   THEN /\ last'.ret = Some(proceeds)
                        /\ bank'.chain_balance = bank.chain_balance - amount
                        /\ bank'.credits_balance = bank.credits_balance + proceeds
                   ELSE /\ last'.ret = None
                        /\ bank' = bank]_vars

\* a sale has just succeeded on a balance short of the amount by the tolerance,
\* and one before it was rejected
C8_Witness ==
    /\ Len(log) = 2
    /\ log[1].op = "sell"
    /\ log[1].ret = None
    /\ log[2].op = "sell"
    /\ IsSome(log[2].ret)
    /\ log[2].before.chain_balance < log[2].amount
    /\ last.op = "sell"

\* C9: buy(amount, price) succeeds exactly when the credits are at least
\* cost = amount * price * 1.01 within TRADE_EPSILON; then it returns cost, takes
\* cost from the credits and adds amount to the chain balance; otherwise it
\* returns None and changes neither balance.
C9_BuyExact ==
    [][Handled("buy")
         => /\ Called("buy")
            /\ LET amount == TheCall.amount
                   cost == Priced(amount, ticker.price, EXCHANGE_BUY_MULTIPLIER_PCT)
               IN  IF bank.credits_balance + TRADE_EPSILON >= cost
                   THEN /\ last'.ret = Some(cost)
                        /\ bank'.credits_balance = bank.credits_balance - cost
                        /\ bank'.chain_balance = bank.chain_balance + amount
                   ELSE /\ last'.ret = None
                        /\ bank' = bank]_vars

\* a purchase has just succeeded on credits short of the cost by the tolerance,
\* and one before it was rejected
C9_Witness ==
    /\ Len(log) = 2
    /\ log[1].op = "buy"
    /\ log[1].ret = None
    /\ log[2].op = "buy"
    /\ IsSome(log[2].ret)
    /\ log[2].before.credits_balance < Unwrap(log[2].ret)
    /\ last.op = "buy"

\* C10: from a price at or above PRICE_FLOOR, after any random-walk steps and
\* market nudges the price is at least PRICE_FLOOR.
C10_PriceAtLeastFloor == ticker.price >= PRICE_FLOOR

\* a nudge has just pushed a price above the floor down onto it, after a
\* random-walk step
C10_Witness ==
    /\ last.op = "nudge"
    /\ ticker.price = PRICE_FLOOR
    /\ ticker.last_delta < 0
    /\ now > 0

\* the active contract, and the cursor and the remaining work of its cells
TheActive == Unwrap(mining.active_job)
Progress(a) == <<a.current_index, [i \in 1..Len(a.linklets) |-> a.linklets[i].remaining]>>

\* C11: on any active contract, apply_work(a) followed by apply_work(b) leaves
\* the same cursor and the same remaining work in every cell as one
\* apply_work(a + b).
C11_WorkSplitIndependent ==
    IsSome(mining.active_job)
      => \A a, b \in WorkAmounts :
           Progress(ActiveJob_apply_work(ActiveJob_apply_work(TheActive, a), b))
             = Progress(ActiveJob_apply_work(TheActive, FAdd(a, b)))

\* the sum of the amounts applied to the contract since it was accepted
RECURSIVE AmountsOf(_)
AmountsOf(calls) == IF calls = <<>> THEN 0 ELSE calls[1].amount + AmountsOf(Tail(calls))
WorkApplied == AmountsOf(log)

\* C12: a contract worked on since it was accepted is complete exactly when the
\* sum of the amounts applied is at least its aggregate difficulty.
C12_CompleteIffWorkCovers ==
    IsSome(mining.active_job)
      => (is_complete(TheActive) <=> WorkApplied >= TheActive.job.difficulty)

\* C13: over the work applications completion_ratio never decreases, stays
\* within [0, 1], and is 1.0 exactly when the contract is complete.
C13_RatioMonotoneAndExact ==
    [][Handled("apply_work")
         => LET before == completion_ratio(TheActive)
                after == completion_ratio(Unwrap(mining'.active_job))
            IN  /\ after >= before
                /\ 0 <= after /\ after <= Unit
                /\ (after = Unit <=> is_complete(Unwrap(mining'.active_job)))]_vars

\* what restoring a snapshot of the present state, taken now, yields
Restored == SaveData_apply(SaveData_from_app(TheApp, now), TheApp, now)

\* the restored state has the pool, selection, contract progress, owned counts,
\* balances and ticker of the present one
RestoredAllButLedger ==
    /\ Restored.result = "ok"
    /\ Restored.app.mining.available_jobs = mining.available_jobs
    /\ Restored.app.mining.selected_job = mining.selected_job
    /\ IsSome(Restored.app.mining.active_job) = IsSome(mining.active_job)
    /\ IsSome(mining.active_job)
         => Progress(Unwrap(Restored.app.mining.active_job)) = Progress(TheActive)
    /\ Restored.app.hashpower.owned = hashpower.owned
    /\ Restored.app.bank = bank
    /\ Restored.app.ticker.price = ticker.price
    /\ Restored.app.ticker.history = ticker.history
    /\ Restored.app.ticker.time_since_update = ticker.time_since_update

\* C14: for every state reached by ticks and commands, restoring its snapshot
\* succeeds and yields the same pool and selection, contract progress, owned
\* counts, balances, ticker price, history and timer, and the same ledger
\* entries, field by field, completion timestamps included.
C14_SnapshotRoundTrip ==
    /\ RestoredAllButLedger
    /\ Restored.app.ledger.entries = ledger.entries

\* the step just taken was an unpaused tick
Ticked == now' # now /\ ~paused /\ last'.op = "tick"

\* the work a tick of the step's length does
TickWork == total_power(hashpower) * (now' - now) * (Unit \div 1000)

\* C15: a contract of aggregate difficulty D accepted from a full pool, then one
\* unpaused tick with power * seconds >= D: the contract completes in that
\* tick, the ledger gains exactly one entry, and the pool holds exactly
\* JOB_POOL_SIZE contracts.
C15_CompletesInOneTick ==
    [][(/\ last.op = "accept"
        /\ IsSome(last.ret)
        /\ Len(mining.available_jobs) = JOB_POOL_SIZE - 1
        /\ Ticked
        /\ TickWork >= TheActive.job.difficulty)
         => /\ mining'.active_job = None
            /\ Len(ledger'.entries) = Len(ledger.entries) + 1
            /\ Tail(ledger'.entries) = ledger.entries
            /\ ledger'.entries[1].name = TheActive.job.name
            /\ Len(mining'.available_jobs) = JOB_POOL_SIZE]_vars

\* C16: accepting while a contract is active, or while the pool is empty,
\* changes nothing: not the pool, the selection, the active contract's progress
\* or the messages.
C16_AcceptNoOp ==
    [][(Handled("accept") /\ (IsSome(mining.active_job) \/ mining.available_jobs = <<>>))
         => /\ last'.ret = None
            /\ mining' = mining
            /\ messages' = messages]_vars

\* an acceptance has just been refused on a contract part of the way through
C16_Witness ==
    /\ last.op = "accept"
    /\ last.ret = None
    /\ IsSome(mining.active_job)
    /\ TheActive.current_index > 0
    /\ ~is_complete(TheActive)

\* an acceptance moves the selected contract out of the pool into the slot
AcceptMoves ==
    (Handled("accept") /\ IsSome(last'.ret))
      => LET sel == IF mining.selected_job >= Len(mining.available_jobs)
                    THEN 0 ELSE mining.selected_job
         IN  /\ mining.active_job = None
             /\ mining'.available_jobs = RemoveAt(mining.available_jobs, sel + 1)
             /\ Unwrap(mining'.active_job).job = mining.available_jobs[sel + 1]

\* a completion empties the slot; the pool keeps what it had and gains only
\* generated contracts, none of them the one completed
CompletionDrops ==
    (Ticked /\ IsSome(last'.ret))
      => /\ mining'.active_job = None
         /\ Len(mining'.available_jobs) >= Len(mining.available_jobs)
         /\ SubSeq(mining'.available_jobs, 1, Len(mining.available_jobs))
              = mining.available_jobs
         /\ \A i \in (Len(mining.available_jobs) + 1)..Len(mining'.available_jobs) :
              /\ mining'.available_jobs[i] \in {generate_job(d) : d \in RngFresh.jobs}
              /\ mining'.available_jobs[i] # TheActive.job

\* C17: there is at most one active contract, acceptance moves the contract out
\* of the pool, and completion removes it from the slot without returning it to
\* the pool.
C17_PoolOrSlot ==
    /\ [](Len(mining.active_job) <= 1)
    /\ [][AcceptMoves /\ CompletionDrops]_vars

\* a contract taken from the pool has just been completed and entered in the
\* ledger, the slot empty again
C17_Witness ==
    /\ last.op = "tick"
    /\ IsSome(last.ret)
    /\ mining.active_job = None
    /\ Len(ledger.entries) > 0
    /\ \A i \in 1..Len(mining.available_jobs) :
          mining.available_jobs[i].name # ledger.entries[1].name

\* C18: while paused a tick changes nothing: not the ticker, the active
\* contract's progress, the pool, the balances, the ledger or the messages.
C18_PausedTickNoOp ==
    [][(paused /\ now' # now) => UNCHANGED <<ticker, mining, bank, ledger, messages>>]_vars

\* time has passed in the pause menu over a contract in progress
C18_Witness ==
    /\ paused
    /\ last.op = "tick"
    /\ IsSome(mining.active_job)
    /\ ~is_complete(TheActive)
    /\ now >= ticker.update_interval

\* C19: while paused the commands still take their usual effect: switching
\* focus moves the focus, selecting moves the pool selection, accepting puts the
\* selected contract in the empty slot.
C19_PausedCommandsTakeEffect ==
    [][/\ (paused /\ KeyTab) => focus' = FocusNext(focus)
       /\ (paused /\ KeyDown /\ focus = "Mining")
            => mining' = mining_select_next(mining)
       /\ (paused /\ KeyEnter /\ focus = "Mining" /\ mining.active_job = None
             /\ mining.available_jobs # <<>>)
            => IsSome(mining'.active_job)]_vars

\* what a tick leaves behind: the active contract, the pool, the ledger entries
\* with their value and price impact, the ticker and the balances
TickView(app) ==
    [active |-> app.mining.active_job,
     pool |-> app.mining.available_jobs,
     entries |-> [i \in 1..Len(app.ledger.entries) |->
                    [name |-> app.ledger.entries[i].name,
                     payout_chain |-> app.ledger.entries[i].payout_chain,
                     credits_at_completion |-> app.ledger.entries[i].credits_at_completion,
                     market_impact |-> app.ledger.entries[i].market_impact]],
     ticker |-> app.ticker,
     bank |-> app.bank]

\* one on_tick(dt) at time t, and on_tick(a) followed by on_tick(b)
TickOnce(app, t, dt) == {TickView(o.app) : o \in tick_outcomes(app, t, dt, RngFixed)}

TickTwice(app, t, a, b) ==
    UNION {TickOnce(o.app, t + a, b) : o \in tick_outcomes(app, t, a, RngFixed)}

\* C20: with the same random draws, one unpaused on_tick(a + b) leaves the
\* active contract, the ledger entries, the ticker, the balances and the pool as
\* on_tick(a) followed by on_tick(b) does.
C20_TickCatchUpAssociative ==
    ~paused => \A a, b \in TickDurations :
                  TickOnce(TheApp, now, a + b) = TickTwice(TheApp, now, a, b)

\* C21: a load that fails before a snapshot is applied (the file missing,
\* unreadable or not parseable) leaves the pool, the active contract, the owned
\* counts, the balances, the ledger and the ticker as they were, and adds only
\* the failure's message and status.
C21_FailedLoadLeavesState ==
    [][(Handled("load") /\ save_file.kind # "doc")
         => /\ last'.ret # Some("ok")
            /\ mining' = mining
            /\ hashpower' = hashpower
            /\ bank' = bank
            /\ ledger' = ledger
            /\ ticker' = ticker
            /\ messages' = push_message(messages, "Load error")
            /\ pause_menu' = [pause_menu EXCEPT !.status = Some("Load failed")]]_vars

\* a load has just failed on an unparseable file, over a game in progress
C21_Witness ==
    /\ last.op = "load"
    /\ last.ret = Some("parsing stored game state")
    /\ IsSome(mining.active_job)
    /\ ledger.entries # <<>>
    /\ messages[1] = "Load error"
    /\ pause_menu.status = Some("Load failed")

\* the events of one sender in a queue, in the queue's order
RECURSIVE SeqsOf(_, _)
SeqsOf(queue, src) ==
    IF queue = <<>> THEN <<>>
    ELSE IF queue[1].src = src THEN <<queue[1].seq>> \o SeqsOf(Tail(queue), src)
    ELSE SeqsOf(Tail(queue), src)

\* the events in flight are, per sender, exactly those sent and not yet taken,
\* in the order they were sent
InFlightInOrder ==
    \A src \in {"input", "tick"} :
        SeqsOf(channel.queue, src)
          = [i \in 1..(channel.sent[src] - channel.taken[src]) |-> channel.taken[src] + i]

\* the simulation moves only by the handler of the oldest event in flight, run
\* whole, and that event is then out of the channel
OneHandlerAtATime ==
    (sim' # sim \/ now' # now \/ commands' # commands \/ last' # last)
      => /\ channel.queue # <<>>
         /\ Handle(Head(channel.queue))
         /\ channel'.queue = Tail(channel.queue)
         /\ channel'.sent = channel.sent

\* the events of a sender are taken one by one in the order they were sent
TakenInOrder ==
    \A src \in {"input", "tick"} :
        \/ channel'.taken[src] = channel.taken[src]
        \/ /\ channel'.taken[src] = channel.taken[src] + 1
           /\ Head(channel.queue) = Event(src, channel'.taken[src], Head(channel.queue).key)

\* C22: the input and tick events of the two threads reach the simulation as one
\* ordered stream: a handler runs whole for one event before the next is
\* taken, and the events of one sender are handled in the order they were sent.
C22_OneOrderedStream ==
    /\ []InFlightInOrder
    /\ [][OneHandlerAtATime /\ TakenInOrder]_vars

\* keys and ticks sent while others waited have been handled, a key last, and
\* more are waiting
C22_Witness ==
    /\ channel.taken.input >= 2
    /\ channel.taken.tick >= 2
    /\ Len(channel.queue) >= 2
    /\ last.op = "accept"

\* the cells of an active contract around its cursor
CellsAroundCursor(a) ==
    /\ a.current_index <= Len(a.linklets)
    /\ Len(a.linklets) = Len(a.job.linklet_difficulties)
    /\ \A i \in 1..Len(a.linklets) :
          /\ a.linklets[i].difficulty = a.job.linklet_difficulties[i]
          /\ a.linklets[i].remaining >= 0
          /\ a.linklets[i].remaining <= a.linklets[i].difficulty
          /\ i <= a.current_index => a.linklets[i].remaining = 0
          /\ i > a.current_index + 1 => a.linklets[i].remaining = a.linklets[i].difficulty

\* work never gives a cell more to do, nor moves the cursor back
CellsNeverGrow ==
    (IsSome(mining.active_job) /\ IsSome(mining'.active_job))
      => LET a == Unwrap(mining.active_job)
             b == Unwrap(mining'.active_job)
         IN  /\ b.job = a.job
             /\ b.current_index >= a.current_index
             /\ \A i \in 1..Len(a.linklets) :
                   b.linklets[i].remaining <= a.linklets[i].remaining

\* C23: in an active contract created by acceptance and changed only by
\* apply_work with non-negative amounts, every cell before the cursor has
\* nothing remaining, every cell after it has its whole difficulty remaining,
\* the cursor is at most the cell count, and no cell's remaining work ever
\* increases or goes below 0.
C23_CursorPartitionsCells ==
    /\ [](IsSome(mining.active_job) => CellsAroundCursor(TheActive))
    /\ [][CellsNeverGrow]_vars

\* work has stopped part of the way through a cell past the first
C23_Witness ==
    /\ last.op = "apply_work"
    /\ IsSome(mining.active_job)
    /\ TheActive.current_index > 0
    /\ TheActive.current_index < Len(TheActive.linklets)
    /\ TheActive.linklets[TheActive.current_index + 1].remaining > 0
    /\ TheActive.linklets[TheActive.current_index + 1].remaining
         < TheActive.linklets[TheActive.current_index + 1].difficulty

\* C24: accepting with no contract active and a non-empty pool removes exactly
\* the selected contract from the pool, the others keeping their order, and
\* makes it the active contract with cursor 0 and one cell per linklet
\* difficulty, each with its whole difficulty remaining.
C24_AcceptInstallsSelected ==
    [][(Handled("accept") /\ mining.active_job = None /\ mining.available_jobs # <<>>)
         => LET chosen == mining.available_jobs[mining.selected_job + 1]
                a == Unwrap(mining'.active_job)
            IN  /\ mining.selected_job < Len(mining.available_jobs)
                /\ last'.ret = Some(chosen.name)
                /\ mining'.available_jobs
                     = RemoveAt(mining.available_jobs, mining.selected_job + 1)
                /\ IsSome(mining'.active_job)
                /\ a.job = chosen
                /\ a.current_index = 0
                /\ a.linklets = [i \in 1..Len(chosen.linklet_difficulties) |->
                                    [difficulty |-> chosen.linklet_difficulties[i],
                                     remaining |-> chosen.linklet_difficulties[i]]]]_vars

\* a contract other than the first of the pool has just been accepted
C24_Witness ==
    /\ last.op = "accept"
    /\ IsSome(last.ret)
    /\ IsSome(mining.active_job)
    /\ TheActive.current_index = 0
    /\ mining.selected_job > 0
    /\ Len(mining.available_jobs) = JOB_POOL_SIZE - 1
    /\ \A i \in 1..Len(mining.available_jobs) : mining.available_jobs[i] # TheActive.job

\* the step just taken was an unpaused tick in which the active contract completed
Completed == Ticked /\ IsSome(mining.active_job) /\ mining'.active_job = None

\* C25: on an unpaused tick in which the active contract completes, the chain
\* balance grows by exactly the contract's payout, the credits balance is
\* unchanged, the slot becomes empty and exactly one ledger entry with the
\* contract's name, aggregate difficulty and payout is added; on an unpaused
\* tick without completion the balances and the ledger are unchanged.
C25_CompletionPaysOnce ==
    [][/\ Completed =>
            /\ last'.ret = Some(TheActive.job.payout_chain)
            /\ bank'.chain_balance = bank.chain_balance + TheActive.job.payout_chain
            /\ bank'.credits_balance = bank.credits_balance
            /\ Len(ledger'.entries) = Len(ledger.entries) + 1
            /\ \E i \in 1..Len(ledger'.entries) :
                  /\ RemoveAt(ledger'.entries, i) = ledger.entries
                  /\ ledger'.entries[i].name = TheActive.job.name
                  /\ ledger'.entries[i].difficulty = TheActive.job.difficulty
                  /\ ledger'.entries[i].payout_chain = TheActive.job.payout_chain
       /\ (Ticked /\ ~Completed) =>
            /\ last'.ret = None
            /\ bank' = bank
            /\ ledger' = ledger]_vars

\* a second contract has just completed, both payouts in the chain balance
C25_Witness ==
    /\ last.op = "tick"
    /\ IsSome(last.ret)
    /\ mining.active_job = None
    /\ Len(ledger.entries) = 2
    /\ bank.chain_balance = ledger.entries[1].payout_chain + ledger.entries[2].payout_chain
    /\ bank.credits_balance = INITIAL_CREDITS

\* the interval lies in the range it is rolled from
IntervalInRange ==
    /\ ticker.update_interval >= Secs(PRICE_UPDATE_MIN_SECS)
    /\ ticker.update_interval <= Secs(PRICE_UPDATE_MAX_SECS)

\* a call of tick(dt) that takes n steps (counted by the samples it records,
\* while the history has room) uses up the interval it found and n - 1 rolled
\* ones, and leaves the rest of the time accumulated
TickTakesSteps ==
    (last'.op = "ticker.tick" /\ now' # now)
      => LET total == ticker.time_since_update + (now' - now)
             n == Len(ticker'.history) - Len(ticker.history)
             used == total - ticker'.time_since_update
         IN  /\ ticker'.time_since_update >= 0
             /\ ticker'.time_since_update < ticker'.update_interval
             /\ IF total < ticker.update_interval
                THEN ticker' = [ticker EXCEPT !.time_since_update = total]
                ELSE /\ used >= ticker.update_interval
                     /\ ticker'.history[Len(ticker'.history)] = ticker'.price
                     /\ Len(ticker'.history) < HISTORY_CAPACITY
                          => /\ n >= 1
                             /\ used >= ticker.update_interval
                                          + (n - 1) * Secs(PRICE_UPDATE_MIN_SECS)
                             /\ used <= ticker.update_interval
                                          + (n - 1) * Secs(PRICE_UPDATE_MAX_SECS)

\* C26: tick(dt) adds dt to the accumulated time and, while that is at least
\* the interval, subtracts the interval, takes one random-walk step and rolls
\* the interval again, so a long dt takes several steps in one call; when it
\* returns the accumulated time is below the interval, and the interval is
\* always within [5 s, 15 s].
C26_TickCatchesUp ==
    /\ []IntervalInRange
    /\ [][TickTakesSteps]_vars

\* one call has taken three steps: a restored timer of 15 s and 10 s more, used
\* up by the interval of 15 s and two of 5 s
C26_Witness ==
    /\ last.op = "ticker.tick"
    /\ now = 10000
    /\ commands = 0
    /\ Len(ticker.history) = 4
    /\ ticker.time_since_update = 0

\* the impulse of a nudge, and the price and realized delta it leads to from
\* the price prev
Impulse(impact, payout) ==
    Clamp(FMul(impact, payout) \div NUDGE_SCALE_DIV, -NUDGE_MAX, NUDGE_MAX)

NudgedFrom(prev, impact, payout, delta) ==
    /\ ticker'.price = Max(prev + Impulse(impact, payout), PRICE_FLOOR)
    /\ ticker'.price >= PRICE_FLOOR
    /\ ticker'.last_delta = delta
    /\ ticker'.history[Len(ticker'.history)] = ticker'.price
    /\ delta = ticker'.price - prev
    /\ delta >= -NUDGE_MAX
    /\ delta <= NUDGE_MAX
    /\ prev + Impulse(impact, payout) >= PRICE_FLOOR => delta = Impulse(impact, payout)

\* C27: a nudge adds clamp(impact * payout * 0.01, [-5, +5]) to the price,
\* floors the result at 0.25 and returns the realized delta new_price -
\* old_price; the ledger entry of the completion carries exactly that delta,
\* and its absolute value never exceeds 5.
C27_NudgeRealizedDelta ==
    [][/\ \A impact \in NudgeImpacts, payout \in NudgePayouts :
            call_nudge(impact, payout)
              => /\ IsSome(last'.ret)
                 /\ NudgedFrom(ticker.price, impact, payout, Unwrap(last'.ret))
       /\ Completed
            => LET h == ticker'.history
               IN  /\ Len(h) >= 2
                   /\ NudgedFrom(h[Len(h) - 1], TheActive.job.market_impact,
                                 TheActive.job.payout_chain,
                                 ledger'.entries[1].market_impact)]_vars

\* a completion has pushed the price onto the floor: the entry carries the
\* realized delta, smaller than the impulse
C27_Witness ==
    /\ last.op = "tick"
    /\ IsSome(last.ret)
    /\ ticker.price = PRICE_FLOOR
    /\ ledger.entries # <<>>
    /\ ledger.entries[1].market_impact < 0
    /\ ledger.entries[1].market_impact
         > Impulse(generate_job(DrawSmall).market_impact, ledger.entries[1].payout_chain)

\* the history h2 is the history h1 with k samples added at the newest end,
\* and as many of the oldest given up as the capacity requires
Appended(h1, h2, k) ==
    LET gone == Len(h1) + k - Len(h2)
    IN  /\ Len(h2) = Min(Len(h1) + k, HISTORY_CAPACITY)
        /\ \A i \in 1..(Len(h2) - k) : h2[i] = h1[i + gone]

\* C28: the price history holds between 1 and 256 samples in every state; each
\* random-walk step or nudge appends exactly one sample at the newest end, and
\* when the capacity is exceeded it is the oldest sample that goes.
C28_HistoryBounded ==
    /\ [](Len(ticker.history) >= 1 /\ Len(ticker.history) <= HISTORY_CAPACITY)
    /\ [][/\ last'.op = "nudge" /\ commands' # commands
            => /\ Appended(ticker.history, ticker'.history, 1)
               /\ ticker'.history[Len(ticker'.history)] = ticker'.price
          /\ (last'.op = "ticker.tick" /\ now' # now)
            => /\ ticker'.history[Len(ticker'.history)] = ticker'.price
               /\ IF ticker.time_since_update + (now' - now) < ticker.update_interval
                  THEN ticker'.history = ticker.history
                  ELSE \E k \in 1..HISTORY_CAPACITY :
                          /\ Appended(ticker.history, ticker'.history, k)
                          /\ Secs(PRICE_UPDATE_MIN_SECS) * (k - 1)
                               <= ticker.time_since_update + (now' - now)
                                    - ticker.update_interval]_vars

\* a nudge on a full history: its sample is the newest, the oldest has gone
C28_Witness ==
    /\ last.op = "nudge"
    /\ Len(ticker.history) = HISTORY_CAPACITY
    /\ ticker.history[HISTORY_CAPACITY] = ticker.price
    /\ ticker.history[HISTORY_CAPACITY - 1] = INITIAL_PRICE
    /\ ticker.history[1] = HistoryOf(HISTORY_CAPACITY)[2]

\* every cursor is within its collection, and the feed within its capacity
CursorsInBounds ==
    /\ IF mining.available_jobs = <<>> THEN mining.selected_job = 0
       ELSE mining.selected_job < Len(mining.available_jobs)
    /\ hashpower.selected < TierCount
    /\ Len(hashpower.owned) = TierCount
    /\ IF ledger.entries = <<>> THEN ledger.scroll = 0
       ELSE ledger.scroll < Len(ledger.entries)
    /\ IsSome(mining.active_job) => TheActive.current_index <= Len(TheActive.linklets)
    /\ Len(messages) <= MAX_MESSAGES

\* C29: after any successful restore, of any snapshot, one edited or truncated
\* out of band included, the selected contract index is below the pool length
\* (0 if the pool is empty), the selected tier index below the tier count, the
\* ledger scroll offset below the ledger length (0 if empty), the active
\* contract's cursor at most its cell count, and the feed at most 5 messages.
C29_RestoredCursorsInBounds ==
    (last.op = "load" /\ last.ret = Some("ok")) => CursorsInBounds

\* a snapshot with every cursor past its collection has just been restored,
\* each cursor brought back to the last place of its collection
C29_Witness ==
    /\ last.op = "load"
    /\ last.ret = Some("ok")
    /\ save_file.doc = Some(DocWildCursors)
    /\ mining.selected_job = Len(mining.available_jobs) - 1
    /\ hashpower.selected = TierCount - 1
    /\ ledger.scroll = Len(ledger.entries) - 1
    /\ TheActive.current_index = Len(TheActive.linklets)
    /\ Len(messages) = MAX_MESSAGES

\* C30: the ledger is append-only and most-recent-first: no tick and no command
\* other than a load removes, reorders or modifies an entry; each completion
\* inserts its entry at index 0, every earlier entry moving one place down, and
\* the list grows by one however long it already is.
C30_LedgerAppendOnly ==
    [][last'.op # "load" =>
          IF Completed
          THEN /\ ledger'.entries # <<>>
               /\ Tail(ledger'.entries) = ledger.entries
               /\ Head(ledger'.entries).name = TheActive.job.name
               /\ Head(ledger'.entries).payout_chain = TheActive.job.payout_chain
          ELSE ledger'.entries = ledger.entries]_vars

\* a second contract has just completed: its entry is first in the ledger, the
\* entry of the earlier, different contract second
C30_Witness ==
    /\ last.op = "tick"
    /\ IsSome(last.ret)
    /\ Len(ledger.entries) = 2
    /\ ledger.entries[1].payout_chain = Unwrap(last.ret)
    /\ ledger.entries[2].name # ledger.entries[1].name

\* both selections point at an item: a tier, and a contract of a non-empty pool
SelectionsInRange ==
    /\ hashpower.selected \in 0..(TierCount - 1)
    /\ mining.available_jobs # <<>>
    /\ mining.selected_job \in 0..(Len(mining.available_jobs) - 1)

\* next and previous step by one and wrap around at the ends
SelectionWraps ==
    /\ (KeyDown /\ focus = "Mining") =>
          mining'.selected_job = IF mining.selected_job = Len(mining.available_jobs) - 1
                                 THEN 0 ELSE mining.selected_job + 1
    /\ (KeyUp /\ focus = "Mining") =>
          mining'.selected_job = IF mining.selected_job = 0
                                 THEN Len(mining.available_jobs) - 1
                                 ELSE mining.selected_job - 1
    /\ (KeyDown /\ focus = "Hashpower") =>
          hashpower'.selected = IF hashpower.selected = TierCount - 1
                                THEN 0 ELSE hashpower.selected + 1
    /\ (KeyUp /\ focus = "Hashpower") =>
          hashpower'.selected = IF hashpower.selected = 0
                                THEN TierCount - 1 ELSE hashpower.selected - 1

\* C31: in every reachable state the selected tier index lies in [0, tierCount)
\* and the selected contract index is an index into the pool, which is not
\* empty; select-next from the last item wraps to the first and select-previous
\* from the first wraps to the last; accept and reshuffle leave the contract
\* selection in range.
C31_SelectionsInRange ==
    /\ []SelectionsInRange
    /\ [][SelectionWraps]_vars
    /\ [][(Handled("accept") \/ Handled("reshuffle")) =>
             mining'.selected_job < Len(mining'.available_jobs)]_vars

\* the last contract of the pool was selected by stepping back from the first,
\* and accepted: the selection is on the last of the three that are left
C31_Witness ==
    /\ last.op = "accept"
    /\ IsSome(last.ret)
    /\ commands = 2
    /\ Len(mining.available_jobs) = JOB_POOL_SIZE - 1
    /\ mining.selected_job = JOB_POOL_SIZE - 2
    /\ hashpower.selected = 0

\* the scroll offset points at an entry, or is 0 when there is none
ScrollInRange ==
    IF ledger.entries = <<>> THEN ledger.scroll = 0
    ELSE ledger.scroll \in 0..(Len(ledger.entries) - 1)

\* what each step does to the scroll offset
ScrollSteps ==
    /\ (KeyUp /\ ~paused /\ focus = "Ledger") =>
          /\ ledger'.scroll = Max(ledger.scroll - 1, 0)
          /\ ledger'.entries = ledger.entries
    /\ (KeyDown /\ ~paused /\ focus = "Ledger") =>
          /\ ledger'.scroll = Max(0, Min(ledger.scroll + 1, Len(ledger.entries) - 1))
          /\ ledger'.entries = ledger.entries
    /\ Completed =>
          /\ ledger'.scroll = ledger.scroll
          /\ Len(ledger'.entries) > Len(ledger.entries)
    /\ (Handled("load") /\ last'.ret = Some("ok")) =>
          /\ Len(ledger'.entries) = Len(Unwrap(save_file.doc).ledger)
          /\ ledger'.scroll =
                Max(0, Min(Unwrap(save_file.doc).ledger_scroll, Len(ledger'.entries) - 1))

\* C32: in every reachable state the ledger scroll offset is 0 when the ledger
\* is empty and otherwise strictly less than the number of entries; scroll-up
\* stops at 0, scroll-down stops at the last entry, a completion grows the
\* ledger and leaves the offset unchanged, and a load clamps the saved offset
\* to the restored length.
C32_ScrollInRange ==
    /\ []ScrollInRange
    /\ [][ScrollSteps]_vars

\* a snapshot of two entries with its offset past them has been restored, the
\* offset now on the second entry, and a scroll down has left it there
C32_Witness ==
    /\ last.op = "scroll"
    /\ ~paused
    /\ save_file.doc = Some(DocLongLedger)
    /\ Len(ledger.entries) = 2
    /\ ledger.scroll = 1
    /\ commands = 3

\* the contract generate_job has just returned
TheGenerated == Unwrap(last.ret)

\* C33: every generated contract has rows in [3,6] and cols in [4,8], exactly
\* rows x cols per-cell difficulties, an aggregate difficulty that is the sum
\* of its per-cell difficulties (added up one by one as the generator does),
\* every per-cell difficulty at least 0.4, and a payout of at least 0.8.
C33_GeneratedContractShape ==
    last.op = "generate" =>
        LET job == TheGenerated
            cells == job.linklet_difficulties
        IN  /\ job.rows \in 3..6
            /\ job.cols \in 4..8
            /\ Len(cells) = job.rows * job.cols
            /\ job.difficulty = FSumSeq(0, cells)
            /\ job.difficulty - SumSeq(cells) \in -(Len(cells) * Ulp(job.difficulty))
                                                  ..(Len(cells) * Ulp(job.difficulty))
            /\ \A i \in 1..Len(cells) : cells[i] >= MIN_DIFFICULTY
            /\ job.payout_chain >= MIN_PAYOUT
            /\ job.payout_chain > 0

\* the largest grid has been generated, some of its cells at the floor and
\* some above it, its payout above the payout floor
C33_Witness ==
    /\ last.op = "generate"
    /\ TheGenerated.rows = 6
    /\ TheGenerated.cols = 8
    /\ Len(TheGenerated.linklet_difficulties) = 48
    /\ \E i \in 1..48 : TheGenerated.linklet_difficulties[i] = MIN_DIFFICULTY
    /\ \E i \in 1..48 : TheGenerated.linklet_difficulties[i] > MIN_DIFFICULTY
    /\ TheGenerated.payout_chain > MIN_PAYOUT

\* the elapsed seconds stored with the active contract of the snapshot on disk
StoredElapsed == Unwrap(Unwrap(save_file.doc).mining.active_job).elapsed_secs

\* C34: when an active contract is restored from a snapshot with stored elapsed
\* seconds e, the reconstructed start instant is never later than the restore
\* instant; a negative e is treated as 0, and otherwise the elapsed time
\* measured right after the restore equals e, or 0 when the instant cannot be
\* represented.
C34_RestoredStartInstant ==
    [][(Handled("load") /\ save_file.kind = "doc"
          /\ IsSome(Unwrap(save_file.doc).mining.active_job)) =>
          /\ last'.ret = Some("ok")
          /\ IsSome(mining'.active_job)
          /\ Unwrap(mining'.active_job).started_at <= now'
          /\ now' - Unwrap(mining'.active_job).started_at =
                IF StoredElapsed < 0 THEN 0
                ELSE IF StoredElapsed <= now' + ClockOrigin THEN StoredElapsed
                ELSE 0]_vars

\* C35: taking a snapshot is side-effect-free: a successful save command
\* changes nothing in the simulation except the pause-menu status and one
\* message added to the feed, and that message is not part of the snapshot
\* just written, which is the projection of the state as it was.
C35_SaveLeavesSimulation ==
    [][(Handled("save") /\ last'.ret = Some("ok")) =>
          /\ UNCHANGED <<focus, mining, hashpower, bank, ledger, ticker>>
          /\ UNCHANGED <<paused, should_quit, aborted, now>>
          /\ pause_menu' = [pause_menu EXCEPT !.status = Some("Game saved.")]
          /\ messages' = push_message(messages, "Snapshot stored to disk.")
          /\ save_file' = [kind |-> "doc", doc |-> Some(SaveData_from_app(TheApp, now))]
          /\ Unwrap(save_file'.doc).messages = messages]_vars

\* a game in progress has just been saved: the snapshot holds its pool, its
\* ledger and the feed as it was, the feed now one message longer
C35_Witness ==
    /\ last.op = "save"
    /\ last.ret = Some("ok")
    /\ mining = EarlierApp.mining
    /\ ledger = EarlierApp.ledger
    /\ Unwrap(save_file.doc).ledger # <<>>
    /\ Unwrap(save_file.doc).messages = EarlierApp.messages
    /\ messages = <<"Snapshot stored to disk.">> \o EarlierApp.messages

\* C36: after every unpaused tick the available pool holds exactly
\* JOB_POOL_SIZE contracts, never more, the tick included in which a contract
\* completes that was accepted before an earlier tick refilled the pool.
C36_PoolAtTargetSize ==
    [][Ticked => Len(mining'.available_jobs) = JOB_POOL_SIZE]_vars

\* the work left in the cells of an active contract
RemainingWork(a) == SumSeq([i \in 1..Len(a.linklets) |-> a.linklets[i].remaining])

\* the work the rigs can still do before the clock of the model runs out
WorkLeftInClock == total_power(hashpower) * (MaxClock - now) * (Unit \div 1000)

\* a contract named x is active, n entries are in the ledger, and the clock
\* leaves the rigs the time to do the work that remains
Mining(x, n) ==
    /\ IsSome(mining.active_job)
    /\ TheActive.job.name = x
    /\ Len(ledger.entries) = n
    /\ WorkLeftInClock >= RemainingWork(TheActive)

\* the contract named x has been recorded since the ledger had n entries
Recorded(x, n) ==
    /\ Len(ledger.entries) > n
    /\ ledger.entries[Len(ledger.entries) - n].name = x

\* a tick has gone by with the game paused
PausedTick == last.op = "tick" /\ paused

\* a snapshot has been restored
Loaded == last.op = "load" /\ last.ret = Some("ok")

ContractNames == {DrawSmall.name, DrawOdd.name}

\* every rig owned stays owned, and together they deliver the base tier's unit
\* power or more
PowerKept ==
    /\ [](total_power(hashpower) >= Tiers[1].power)
    /\ [][last'.op # "load" =>
             \A i \in 1..TierCount : hashpower'.owned[i] >= hashpower.owned[i]]_vars

---------------------------------------------------------------------------
(* The order of a completing tick *)

\* the samples the step just taken added to the price history (the history is
\* far from its capacity in every state of the model)
NewSamples == SubSeq(ticker'.history, Len(ticker.history) + 1, Len(ticker'.history))

\* the price before the nudge of the completion just made: the sample before
\* the newest one
PriceBeforeNudge == ticker'.history[Len(ticker'.history) - 1]

\* the tick just taken was long enough for a random-walk step
WalkDue == \E dt \in TickDurations :
    /\ now' = now + dt
    /\ ticker.time_since_update + dt >= ticker.update_interval

\* C38: on a completing tick the random-walk steps come before the nudge (the
\* history grows by the walk's samples and then by the nudged price, which is
\* the newest), the work applied is the tick's own (the entry's duration runs to
\* the end of the tick), the entry's credits value is the payout times the
\* price before the nudge, and the nudge then moves the price by the entry's
\* market impact.
C38_CompletionOrder ==
    [][Completed =>
        LET entry == ledger'.entries[1]
        IN  /\ Len(ticker.history) < Len(ticker'.history)
            /\ SubSeq(ticker'.history, 1, Len(ticker.history)) = ticker.history
            /\ WalkDue => Len(NewSamples) >= 2
            /\ NewSamples[Len(NewSamples)] = ticker'.price
            /\ PriceBeforeNudge = ticker'.price - entry.market_impact
            /\ ticker'.last_delta = entry.market_impact
            /\ entry.payout_chain = TheActive.job.payout_chain
            /\ entry.duration = now' - TheActive.started_at
            /\ entry.credits_at_completion = FMul(entry.payout_chain, PriceBeforeNudge)]_vars

\* a contract has completed in a tick that also walked the price: the walk's
\* sample and the nudged price are the two newest samples, they differ from each
\* other and from the price before the tick, and the entry is valued at the
\* walk's sample
C38_Witness ==
    /\ last.op = "tick"
    /\ IsSome(last.ret)
    /\ Len(ledger.entries) = 1
    /\ Len(ticker.history) = 3
    /\ ticker.history[1] = INITIAL_PRICE
    /\ ticker.history[2] # INITIAL_PRICE
    /\ ticker.history[3] # ticker.history[2]
    /\ ticker.history[3] = ticker.price
    /\ ledger.entries[1].credits_at_completion =
           FMul(ledger.entries[1].payout_chain, ticker.history[2])
    /\ ledger.entries[1].credits_at_completion #
           FMul(ledger.entries[1].payout_chain, ticker.price)

---------------------------------------------------------------------------
(* The ticker through ticks, commands and loads of the game's own snapshots *)

\* A game in progress, a contract accepted and partly mined with one rig or
\* with three, the pause menu last left on Save or on Load, and on disk the
\* snapshot the game wrote of the game with three
InitRound ==
    /\ focus = EarlierApp.focus
    /\ should_quit = FALSE
    /\ paused = FALSE
    /\ pause_menu \in {[selected |-> i, status |-> None] : i \in {1, 2}}
    /\ mining = EarlierApp.mining
    /\ hashpower \in {HashpowerState_new, EarlierApp.hashpower}
    /\ bank = EarlierApp.bank
    /\ ledger = EarlierApp.ledger
    /\ ticker = EarlierApp.ticker
    /\ messages = EarlierApp.messages
    /\ save_file = [kind |-> "doc", doc |-> Some(DocEarlier)]
    /\ now = 0
    /\ aborted = FALSE
    /\ last = NoRet("key")
    /\ log = <<>>
    /\ commands = 0
    /\ channel = ChannelEmpty

NextRound ==
    \/ TickCalm
    \/ KeyQ
    \/ KeyEnter
    \/ KeyUp
    \/ KeyDown

SpecRound == InitRound /\ [][NextRound]_vars

\* the history ends with the current price, and the last delta is what the
\* most recent step or nudge added to the sample before it
TickerCoherent ==
    /\ ticker.history # <<>>
    /\ ticker.history[Len(ticker.history)] = ticker.price
    /\ Len(ticker.history) >= 2 =>
          ticker.last_delta = ticker.price - ticker.history[Len(ticker.history) - 1]

\* a tick that made one random-walk step or one nudge leaves as the last delta
\* the difference between the price after it and the price before it
SingleStepDelta ==
    (Ticked /\ Len(ticker'.history) = Len(ticker.history) + 1) =>
        ticker'.last_delta = ticker'.price - ticker.price

\* a load of a snapshot the game wrote restores the ticker that was saved
LoadRestoresTicker ==
    (Handled("load") /\ last'.ret = Some("ok")) =>
        /\ ticker'.price = Unwrap(save_file.doc).ticker.price
        /\ ticker'.history = Unwrap(save_file.doc).ticker.history
        /\ ticker'.last_delta = Unwrap(save_file.doc).ticker.last_delta

\* C39: in every state reachable by ticks, commands and loads of snapshots the
\* game saved, the price history is non-empty, its newest sample is the current
\* price, and last_delta is the current price less the price before the most
\* recent random-walk step or nudge.
C39_TickerCoherent ==
    /\ []TickerCoherent
    /\ [][SingleStepDelta]_vars
    /\ [][LoadRestoresTicker]_vars

\* a snapshot the game saved after the price had walked on has been loaded
\* back: the ticker is the saved one, its history longer than at the start and
\* its last delta that of the walk
C39_Witness ==
    /\ last.op = "load"
    /\ last.ret = Some("ok")
    /\ save_file.doc # Some(DocEarlier)
    /\ Len(ticker.history) > Len(EarlierApp.ticker.history)
    /\ ticker.last_delta # 0
    /\ ticker.last_delta # EarlierApp.ticker.last_delta

====
